---------------------------- MODULE Spec2Model ----------------------------
(***************************************************************************)
(* The event state machine of the Roundnet condenser                       *)
(* (src/python/core/state_machine.py), with the threshold calibrator of    *)
(* src/python/core/utils.py and the configuration of                       *)
(* src/python/core/config.py.                                              *)
(*                                                                         *)
(* Numbers.  The code works on floats.  Here a time is an integer number   *)
(* of 1/TimeDen seconds and an energy an integer number of 1/EDen energy   *)
(* units, so the defaults 2.5 s, 4.0 s, -1 s, 60.0, 55.0 ... and the frame  *)
(* times k/fps of the frame rates explored are exact.                      *)
(* The calibrated threshold is a mean and is kept as a normalised          *)
(* fraction [n, d] of energy units.  int() is floor division.              *)
(***************************************************************************)
EXTENDS Integers, Sequences, FiniteSets, TLC

(* ------------------------------ bounds -------------------------------- *)
\* index of the last video frame read
MaxFrames == 10
\* largest logic_step
MaxStep == 2
\* largest active_zones fed (the smallest is one below min_occupied_zones)
MaxZones == 2
\* largest num_skeletons fed
MaxSkeletons == 1
\* longest baseline list explored
MaxBaseline == 2
\* longest clip list explored
MaxClips == 2
\* durations handed to classify directly lie in -MaxDuration..MaxDuration (1/TimeDen s)
MaxDuration == 1
\* peak energies handed to classify directly lie in 0..MaxPeak (1/EDen units)
MaxPeak == 170
\* length of the reading lists handed to calculate_dynamic_threshold directly
MaxReadings == 2
\* frames fed by a caller of update() other than process_video
MaxFeed == 5
\* bits of the significand of the floating-point numbers modelled
Precision == 5
\* the floating-point numbers modelled have exponents from -MinExponent up
MinExponent == 4
\* longest list of skeleton points handed to calculate()
MaxPoints == 2
\* ankle points per check_occupancy call
MaxAnkles == 2
\* frames of the video read by process_video
MaxVideo == 9

(* ------------------------------ scales -------------------------------- *)
TimeDen == 30
EDen == 2

\* smoothed energies fed: 20.0, 60.0, 150.5
Energies == {40, 120, 301}

(* ----------------------------- GameState ------------------------------ *)
SEARCHING == "SEARCHING"
LOCKED == "LOCKED"
PROBATION == "PROBATION"
RALLY == "RALLY"
GameState == {SEARCHING, LOCKED, PROBATION, RALLY}

(* ------------------------------- Config ------------------------------- *)
DefaultConfig ==
    [ pre_serve_buffer        |-> 4 * TimeDen,
      post_point_buffer       |-> -1 * TimeDen,
      min_occupied_zones      |-> 2,
      min_hold_duration       |-> (5 * TimeDen) \div 2,      \* 2.5 s
      min_point_duration      |-> (5 * TimeDen) \div 2,      \* 2.5 s
      min_low_energy_duration |-> (5 * TimeDen) \div 2,      \* 2.5 s
      base_sensitivity        |-> 15 * EDen,
      min_dynamic_threshold   |-> 60 * EDen,
      max_dynamic_threshold   |-> 60 * EDen,
      rally_energy_req        |-> 80 * EDen,
      walk_energy_cap         |-> 55 * EDen,
      process_fps             |-> 30,
      process_width           |-> 640,
      skip_frames             |-> 2,
      inference_batch_size    |-> 4,
      energy_smoothing_factor |-> [n |-> 3, d |-> 10],       \* 0.3
      max_skeleton_match_distance |-> 100,                   \* pixels
      show_visuals            |-> FALSE ]

\* a configuration with shorter durations and the floor of the safety rails
\* lowered to 30.0, so that the calibrated threshold depends on the baseline
QuickConfig ==
    [DefaultConfig EXCEPT !.min_hold_duration = TimeDen,                  \* 1.0 s
                          !.min_point_duration = (3 * TimeDen) \div 2,    \* 1.5 s
                          !.min_low_energy_duration = TimeDen,            \* 1.0 s
                          !.min_dynamic_threshold = 30 * EDen]

\* a configuration tuned for short points: 1.0 s hold, 0.5 s minimum point and
\* low-energy durations, no pre-serve buffer
TunedConfig ==
    [DefaultConfig EXCEPT !.min_hold_duration = TimeDen,                  \* 1.0 s
                          !.min_point_duration = TimeDen \div 2,          \* 0.5 s
                          !.min_low_energy_duration = TimeDen \div 2,     \* 0.5 s
                          !.pre_serve_buffer = 0]

\* configurations of the energy calculator: skeletons are matched below
\* 5 pixels, or below the default 100 pixels
EnergyConfigs ==
    { [DefaultConfig EXCEPT !.max_skeleton_match_distance = m] : m \in {5, 100} }

\* configurations of the smoothing: factors 0.3, 0.7 and 1.0
SmoothConfigs ==
    { [DefaultConfig EXCEPT !.energy_smoothing_factor = a] :
        a \in {[n |-> 3, d |-> 10], [n |-> 7, d |-> 10], [n |-> 1, d |-> 1]} }

\* the machines explored: StateMachine(config, fps)
Machines == {<<DefaultConfig, 1>>, <<QuickConfig, 2>>}

(* ------------------------------ fractions ----------------------------- *)
RECURSIVE GCD(_, _)
GCD(a, b) == IF b = 0 THEN a ELSE GCD(b, a % b)

Abs(x) == IF x < 0 THEN -x ELSE x

\* the fraction n/d (d > 0) in lowest terms
Frac(n, d) ==
    LET g == GCD(Abs(n), d)
    IN  IF g = 0 THEN [n |-> 0, d |-> 1] ELSE [n |-> n \div g, d |-> d \div g]

FLess(a, b) == a.n * b.d < b.n * a.d

\* Python's max(a, b) and min(a, b): the first argument wins a tie
FMax(a, b) == IF FLess(a, b) THEN b ELSE a
FMin(a, b) == IF FLess(b, a) THEN b ELSE a

RECURSIVE Sum(_)
\* sum(baseline_readings); the readings are exact, so the halves may be
\* added in any grouping
Sum(s) ==
    IF Len(s) = 0 THEN 0
    ELSE IF Len(s) = 1 THEN s[1]
    ELSE LET half == Len(s) \div 2
         IN  Sum(SubSeq(s, 1, half)) + Sum(SubSeq(s, half + 1, Len(s)))

\* exact sum, difference, product and distance of fractions
FAdd(a, b) == Frac(a.n * b.d + b.n * a.d, a.d * b.d)
FSub(a, b) == Frac(a.n * b.d - b.n * a.d, a.d * b.d)
FMul(a, b) == Frac(a.n * b.n, a.d * b.d)
FDist(a, b) == IF FLess(a, b) THEN FSub(b, a) ELSE FSub(a, b)

(* ------------------------- floating point ----------------------------- *)
\* Python floats are binary floating-point numbers: every literal and every
\* arithmetic result is rounded to the nearest number with a significand of
\* a fixed number of bits, ties to even.  The model keeps that behaviour with
\* a significand of Precision bits (53 in the implementation) and a smallest
\* exponent of -MinExponent, below which the spacing stays 2^-MinExponent.
\* Only non-negative numbers occur.
RECURSIVE Pow2(_)
Pow2(k) == IF k = 0 THEN 1 ELSE 2 * Pow2(k - 1)

\* n/d rounded to the nearest integer, ties to the even one
RoundHalfEven(n, d) ==
    LET q == n \div d
        r == n % d
    IN  IF 2 * r < d THEN q
        ELSE IF 2 * r > d THEN q + 1
        ELSE IF q % 2 = 0 THEN q ELSE q + 1

\* x * 2^(-e)
Scaled(x, e) == IF e >= 0 THEN Frac(x.n, x.d * Pow2(e)) ELSE Frac(x.n * Pow2(-e), x.d)

\* the exponent of the unit in the last place of x
RECURSIVE UlpExponent(_, _)
UlpExponent(x, e) ==
    IF FLess(Scaled(x, e), Frac(Pow2(Precision), 1)) THEN e ELSE UlpExponent(x, e + 1)

\* x rounded to the nearest float
Float(x) ==
    LET e == UlpExponent(x, -MinExponent)
        m == RoundHalfEven(Scaled(x, e).n, Scaled(x, e).d)
    IN  IF e >= 0 THEN Frac(m * Pow2(e), 1) ELSE Frac(m, Pow2(-e))

\* a + b, a - b (a >= b) and a * b as the interpreter computes them
FloatAdd(a, b) == Float(FAdd(a, b))
FloatSub(a, b) == Float(FSub(a, b))
FloatMul(a, b) == Float(FMul(a, b))

(* --------------------------- utils.py --------------------------------- *)
\* faulty variant: the ceiling is not applied
clamp_NoCeiling(value, min_val, max_val) == FMax(min_val, value)

clamp(value, min_val, max_val) == FMax(min_val, FMin(value, max_val))

\* faulty variant: an empty list counts as a noise floor of 0
calculate_dynamic_threshold_ZeroFallback(baseline_readings, base_sensitivity, min_threshold, max_threshold) ==
    LET noise_floor == IF baseline_readings # <<>>
                       THEN Frac(Sum(baseline_readings), Len(baseline_readings))
                       ELSE Frac(0, 1)
        raw_threshold == Frac(noise_floor.n + base_sensitivity * noise_floor.d, noise_floor.d)
    IN  clamp(raw_threshold, Frac(min_threshold, 1), Frac(max_threshold, 1))

calculate_dynamic_threshold(baseline_readings, base_sensitivity, min_threshold, max_threshold) ==
    LET noise_floor == IF baseline_readings # <<>>
                       THEN Frac(Sum(baseline_readings), Len(baseline_readings))
                       ELSE Frac(10 * EDen, 1)
        raw_threshold == Frac(noise_floor.n + base_sensitivity * noise_floor.d, noise_floor.d)
    IN  clamp(raw_threshold, Frac(min_threshold, 1), Frac(max_threshold, 1))

(* ------------------------ state of the machine ------------------------ *)
VARIABLES
    config,     \* self.config
    fps,        \* self.fps
    ctx,        \* self.ctx, a StateMachineContext
    clips,      \* self.clips
    frame_idx,  \* process_video's frame_idx: the last video frame read
    call,       \* the last update() or reset() call: arguments, context and
                \* clip list before it, result
    hist,       \* what the calls so far fed: frames over the present run of
                \* occupied ticks, time of the last serve, peak of the candidate
    probe,      \* the last application of a pure function: arguments, result
    energy_calc,\* an EnergyCalculator: prev_skeletons, smooth_energy, scale_factor
    zone_mgr,   \* a ZoneManager: zones, scaled_zones
    loop        \* main() and process_video's loop: position, video, batch, ticks fed

vars == <<config, fps, ctx, clips, frame_idx, call, hist, probe, energy_calc, zone_mgr, loop>>

StateMachineContext ==
    [ state             |-> SEARCHING,
      frames_held       |-> 0,
      low_energy_frames |-> 0,
      serve_time        |-> 0,
      clip_peak_energy  |-> 0,
      baseline_readings |-> <<>>,
      dynamic_threshold |-> Frac(40 * EDen, 1) ]

\* update() returning None
NoClip == [start |-> 0, end |-> 0, tag |-> "None", confidence |-> "None", peak_energy |-> 0]

(* ------------------------- frame thresholds --------------------------- *)
frames_start_needed == (config.min_hold_duration * fps) \div TimeDen
frames_override_needed == (TimeDen * fps) \div TimeDen
frames_end_needed == (config.min_low_energy_duration * fps) \div TimeDen

(* --------------------------- ClipClassifier --------------------------- *)
\* faulty variant: everything at or above walk_energy_cap is a rally
classify_NoServeBand(duration, peak_energy) ==
    IF peak_energy >= config.walk_energy_cap THEN <<"Rally", "High">>
    ELSE <<"Noise", "Low">>

\* faulty variant: a clip of no positive duration is always noise
classify_ByDuration(duration, peak_energy) ==
    IF duration <= 0 THEN <<"Noise", "Low">>
    ELSE IF peak_energy > config.rally_energy_req THEN <<"Rally", "High">>
    ELSE IF peak_energy < config.walk_energy_cap THEN <<"Noise", "Low">>
    ELSE <<"Serve", "Medium">>

classify(duration, peak_energy) ==
    IF peak_energy > config.rally_energy_req THEN <<"Rally", "High">>
    ELSE IF peak_energy < config.walk_energy_cap THEN <<"Noise", "Low">>
    ELSE <<"Serve", "Medium">>

(* ----------------------------- _save_clip ----------------------------- *)
IMax(a, b) == IF a < b THEN b ELSE a

\* faulty variant: the start is not clamped at 0
save_clip_NoClamp(c, end_time) ==
    LET clip_start == c.serve_time - config.pre_serve_buffer
        clip_end == end_time
        duration == clip_end - clip_start
        tc == classify(duration, c.clip_peak_energy)
    IN  [ start |-> clip_start,
          end |-> clip_end,
          tag |-> tc[1],
          confidence |-> tc[2],
          peak_energy |-> c.clip_peak_energy \div EDen ]

save_clip(c, end_time) ==
    LET clip_start == IMax(0, c.serve_time - config.pre_serve_buffer)
        clip_end == end_time
        duration == clip_end - clip_start
        tc == classify(duration, c.clip_peak_energy)
    IN  [ start |-> clip_start,
          end |-> clip_end,
          tag |-> tc[1],
          confidence |-> tc[2],
          peak_energy |-> c.clip_peak_energy \div EDen ]

(* ------------------------------ update() ------------------------------ *)
\* Each block of update() maps r = [ctx, clip, cut] to the same shape: the
\* context, completed_clip, and which block closed the clip.

\* energy strictly below / strictly above the dynamic threshold
Below(e, thr) == FLess(Frac(e, 1), thr)
Above(e, thr) == FLess(thr, Frac(e, 1))

\* faulty variant: the peak is tracked in RALLY only
PeakTracking_RallyOnly(c, smooth_energy) ==
    IF c.state = RALLY
    THEN [c EXCEPT !.clip_peak_energy = IMax(c.clip_peak_energy, smooth_energy)]
    ELSE c

PeakTracking(c, smooth_energy) ==
    IF c.state \in {PROBATION, RALLY}
    THEN [c EXCEPT !.clip_peak_energy = IMax(c.clip_peak_energy, smooth_energy)]
    ELSE c

\* faulty variant: the held frames are counted and the cut is made whatever the occupancy
GlobalOverride_NoZoneCheck(r, timestamp, active_zones, logic_step) ==
    LET c == r.ctx IN
    IF c.state = RALLY
    THEN LET held == c.frames_held + logic_step IN
         IF held >= frames_override_needed
         THEN [ ctx |-> [c EXCEPT !.state = LOCKED,
                                  !.frames_held = frames_start_needed,
                                  !.baseline_readings = <<>>],
                clip |-> save_clip(c, timestamp - TimeDen),
                cut |-> "force" ]
         ELSE [r EXCEPT !.ctx.frames_held = held]
    ELSE r

\* faulty variant: the force cut returns to SEARCHING, as the other closures do
GlobalOverride_ViaSearching(r, timestamp, active_zones, logic_step) ==
    LET c == r.ctx IN
    IF c.state = RALLY
    THEN IF active_zones >= config.min_occupied_zones
         THEN LET held == c.frames_held + logic_step IN
              IF held >= frames_override_needed
              THEN [ ctx |-> [c EXCEPT !.state = SEARCHING,
                                       !.frames_held = frames_start_needed,
                                       !.baseline_readings = <<>>],
                     clip |-> save_clip(c, timestamp - TimeDen),
                     cut |-> "force" ]
              ELSE [r EXCEPT !.ctx.frames_held = held]
         ELSE [r EXCEPT !.ctx.frames_held = 0]
    ELSE r

GlobalOverride(r, timestamp, active_zones, logic_step) ==
    LET c == r.ctx IN
    IF c.state = RALLY
    THEN IF active_zones >= config.min_occupied_zones
         THEN LET held == c.frames_held + logic_step IN
              IF held >= frames_override_needed
              THEN [ ctx |-> [c EXCEPT !.state = LOCKED,
                                       !.frames_held = frames_start_needed,
                                       !.baseline_readings = <<>>],
                     clip |-> save_clip(c, timestamp - TimeDen),
                     cut |-> "force" ]
              ELSE [r EXCEPT !.ctx.frames_held = held]
         ELSE [r EXCEPT !.ctx.frames_held = 0]
    ELSE r

\* faulty variant: the hold must be exceeded, not reached
SearchingBranch_StrictHold(r, active_zones, smooth_energy, logic_step) ==
    LET c == r.ctx IN
    IF active_zones >= config.min_occupied_zones
    THEN LET held == c.frames_held + logic_step IN
         [r EXCEPT !.ctx.frames_held = held,
                   !.ctx.baseline_readings = Append(c.baseline_readings, smooth_energy),
                   !.ctx.state = IF held > frames_start_needed THEN LOCKED ELSE SEARCHING]
    ELSE [r EXCEPT !.ctx.frames_held = 0,
                   !.ctx.baseline_readings = <<>>]

\* faulty variant: an unoccupied tick keeps the baseline readings
SearchingBranch_KeepsBaseline(r, active_zones, smooth_energy, logic_step) ==
    LET c == r.ctx IN
    IF active_zones >= config.min_occupied_zones
    THEN LET held == c.frames_held + logic_step IN
         [r EXCEPT !.ctx.frames_held = held,
                   !.ctx.baseline_readings = Append(c.baseline_readings, smooth_energy),
                   !.ctx.state = IF held >= frames_start_needed THEN LOCKED ELSE SEARCHING]
    ELSE [r EXCEPT !.ctx.frames_held = 0]

SearchingBranch(r, active_zones, smooth_energy, logic_step) ==
    LET c == r.ctx IN
    IF active_zones >= config.min_occupied_zones
    THEN LET held == c.frames_held + logic_step IN
         [r EXCEPT !.ctx.frames_held = held,
                   !.ctx.baseline_readings = Append(c.baseline_readings, smooth_energy),
                   !.ctx.state = IF held >= frames_start_needed THEN LOCKED ELSE SEARCHING]
    ELSE [r EXCEPT !.ctx.frames_held = 0,
                   !.ctx.baseline_readings = <<>>]

\* faulty variant: the serve leaves frames_held as it was
LockedBranch_KeepsHeld(r, timestamp, active_zones, smooth_energy) ==
    LET readings == Append(r.ctx.baseline_readings, smooth_energy) IN
    IF active_zones < config.min_occupied_zones
    THEN [r EXCEPT !.ctx.baseline_readings = readings,
                   !.ctx.dynamic_threshold =
                       calculate_dynamic_threshold(readings,
                                                   config.base_sensitivity,
                                                   config.min_dynamic_threshold,
                                                   config.max_dynamic_threshold),
                   !.ctx.serve_time = timestamp,
                   !.ctx.state = PROBATION,
                   !.ctx.clip_peak_energy = 0]
    ELSE [r EXCEPT !.ctx.baseline_readings = readings]

\* faulty variant: the threshold is calibrated before this tick's reading is appended
LockedBranch_StaleBaseline(r, timestamp, active_zones, smooth_energy) ==
    LET readings == Append(r.ctx.baseline_readings, smooth_energy) IN
    IF active_zones < config.min_occupied_zones
    THEN [r EXCEPT !.ctx.baseline_readings = readings,
                   !.ctx.dynamic_threshold =
                       calculate_dynamic_threshold(r.ctx.baseline_readings,
                                                   config.base_sensitivity,
                                                   config.min_dynamic_threshold,
                                                   config.max_dynamic_threshold),
                   !.ctx.serve_time = timestamp,
                   !.ctx.state = PROBATION,
                   !.ctx.frames_held = 0,
                   !.ctx.clip_peak_energy = 0]
    ELSE [r EXCEPT !.ctx.baseline_readings = readings]

\* faulty variant: the serve keeps the threshold it finds
LockedBranch_KeepsThreshold(r, timestamp, active_zones, smooth_energy) ==
    LET readings == Append(r.ctx.baseline_readings, smooth_energy) IN
    IF active_zones < config.min_occupied_zones
    THEN [r EXCEPT !.ctx.baseline_readings = readings,
                   !.ctx.serve_time = timestamp,
                   !.ctx.state = PROBATION,
                   !.ctx.frames_held = 0,
                   !.ctx.clip_peak_energy = 0]
    ELSE [r EXCEPT !.ctx.baseline_readings = readings]

LockedBranch(r, timestamp, active_zones, smooth_energy) ==
    LET readings == Append(r.ctx.baseline_readings, smooth_energy) IN
    IF active_zones < config.min_occupied_zones
    THEN [r EXCEPT !.ctx.baseline_readings = readings,
                   !.ctx.dynamic_threshold =
                       calculate_dynamic_threshold(readings,
                                                   config.base_sensitivity,
                                                   config.min_dynamic_threshold,
                                                   config.max_dynamic_threshold),
                   !.ctx.serve_time = timestamp,
                   !.ctx.state = PROBATION,
                   !.ctx.frames_held = 0,
                   !.ctx.clip_peak_energy = 0]
    ELSE [r EXCEPT !.ctx.baseline_readings = readings]

\* faulty variant: the promote / cut decision does not wait for min_point_duration
ProbationBranch_NoMinDuration(r, timestamp, smooth_energy, logic_step) ==
    LET c == r.ctx
        low == IF Below(smooth_energy, c.dynamic_threshold)
               THEN c.low_energy_frames + logic_step
               ELSE 0
        c1 == [c EXCEPT !.low_energy_frames = low]
    IN  IF Above(smooth_energy, c.dynamic_threshold)
        THEN [r EXCEPT !.ctx = [c1 EXCEPT !.state = RALLY,
                                          !.low_energy_frames = 0]]
        ELSE IF low >= frames_end_needed
        THEN [ ctx |-> [c1 EXCEPT !.state = SEARCHING,
                                  !.frames_held = 0,
                                  !.baseline_readings = <<>>],
               clip |-> save_clip(c1, timestamp + config.post_point_buffer),
               cut |-> "probation" ]
        ELSE [r EXCEPT !.ctx = c1]

\* faulty variant: an energy equal to the threshold promotes to RALLY
ProbationBranch_PromoteAtThreshold(r, timestamp, smooth_energy, logic_step) ==
    LET c == r.ctx
        current_duration == timestamp - c.serve_time
        low == IF Below(smooth_energy, c.dynamic_threshold)
               THEN c.low_energy_frames + logic_step
               ELSE 0
        c1 == [c EXCEPT !.low_energy_frames = low]
    IN  IF current_duration >= config.min_point_duration
        THEN IF ~Below(smooth_energy, c.dynamic_threshold)
             THEN [r EXCEPT !.ctx = [c1 EXCEPT !.state = RALLY,
                                               !.low_energy_frames = 0]]
             ELSE IF low >= frames_end_needed
             THEN [ ctx |-> [c1 EXCEPT !.state = SEARCHING,
                                       !.frames_held = 0,
                                       !.baseline_readings = <<>>],
                    clip |-> save_clip(c1, timestamp + config.post_point_buffer),
                    cut |-> "probation" ]
             ELSE [r EXCEPT !.ctx = c1]
        ELSE [r EXCEPT !.ctx = c1]

\* faulty variant: the PROBATION close leaves the baseline readings in place
ProbationBranch_KeepsBaseline(r, timestamp, smooth_energy, logic_step) ==
    LET c == r.ctx
        current_duration == timestamp - c.serve_time
        low == IF Below(smooth_energy, c.dynamic_threshold)
               THEN c.low_energy_frames + logic_step
               ELSE 0
        c1 == [c EXCEPT !.low_energy_frames = low]
    IN  IF current_duration >= config.min_point_duration
        THEN IF Above(smooth_energy, c.dynamic_threshold)
             THEN [r EXCEPT !.ctx = [c1 EXCEPT !.state = RALLY,
                                               !.low_energy_frames = 0]]
             ELSE IF low >= frames_end_needed
             THEN [ ctx |-> [c1 EXCEPT !.state = SEARCHING,
                                       !.frames_held = 0],
                    clip |-> save_clip(c1, timestamp + config.post_point_buffer),
                    cut |-> "probation" ]
             ELSE [r EXCEPT !.ctx = c1]
        ELSE [r EXCEPT !.ctx = c1]

ProbationBranch(r, timestamp, smooth_energy, logic_step) ==
    LET c == r.ctx
        current_duration == timestamp - c.serve_time
        low == IF Below(smooth_energy, c.dynamic_threshold)
               THEN c.low_energy_frames + logic_step
               ELSE 0
        c1 == [c EXCEPT !.low_energy_frames = low]
    IN  IF current_duration >= config.min_point_duration
        THEN IF Above(smooth_energy, c.dynamic_threshold)
             THEN [r EXCEPT !.ctx = [c1 EXCEPT !.state = RALLY,
                                               !.low_energy_frames = 0]]
             ELSE IF low >= frames_end_needed
             THEN [ ctx |-> [c1 EXCEPT !.state = SEARCHING,
                                       !.frames_held = 0,
                                       !.baseline_readings = <<>>],
                    clip |-> save_clip(c1, timestamp + config.post_point_buffer),
                    cut |-> "probation" ]
             ELSE [r EXCEPT !.ctx = c1]
        ELSE [r EXCEPT !.ctx = c1]

\* faulty variant: no occlusion shield, the energy is evaluated on every tick
RallyBranch_NoShield(r, timestamp, smooth_energy, num_skeletons, logic_step) ==
    LET c == r.ctx
        low == IF Below(smooth_energy, c.dynamic_threshold)
               THEN c.low_energy_frames + logic_step
               ELSE 0
        c1 == [c EXCEPT !.low_energy_frames = low]
    IN  IF low >= frames_end_needed
        THEN [ ctx |-> [c1 EXCEPT !.state = SEARCHING,
                                  !.frames_held = 0,
                                  !.baseline_readings = <<>>],
               clip |-> save_clip(c1, timestamp + config.post_point_buffer),
               cut |-> "rally" ]
        ELSE [r EXCEPT !.ctx = c1]

\* faulty variant: an energy equal to the threshold counts as low
RallyBranch_CountsAtThreshold(r, timestamp, smooth_energy, num_skeletons, logic_step) ==
    LET c == r.ctx
        low == IF num_skeletons < 1
               THEN 0
               ELSE IF ~Above(smooth_energy, c.dynamic_threshold)
                    THEN c.low_energy_frames + logic_step
                    ELSE 0
        c1 == [c EXCEPT !.low_energy_frames = low]
    IN  IF low >= frames_end_needed
        THEN [ ctx |-> [c1 EXCEPT !.state = SEARCHING,
                                  !.frames_held = 0,
                                  !.baseline_readings = <<>>],
               clip |-> save_clip(c1, timestamp + config.post_point_buffer),
               cut |-> "rally" ]
        ELSE [r EXCEPT !.ctx = c1]

\* faulty variant: the clip is closed only once the counter exceeds frames_end_needed
RallyBranch_StrictEnd(r, timestamp, smooth_energy, num_skeletons, logic_step) ==
    LET c == r.ctx
        low == IF num_skeletons < 1
               THEN 0
               ELSE IF Below(smooth_energy, c.dynamic_threshold)
                    THEN c.low_energy_frames + logic_step
                    ELSE 0
        c1 == [c EXCEPT !.low_energy_frames = low]
    IN  IF low > frames_end_needed
        THEN [ ctx |-> [c1 EXCEPT !.state = SEARCHING,
                                  !.frames_held = 0,
                                  !.baseline_readings = <<>>],
               clip |-> save_clip(c1, timestamp + config.post_point_buffer),
               cut |-> "rally" ]
        ELSE [r EXCEPT !.ctx = c1]

RallyBranch(r, timestamp, smooth_energy, num_skeletons, logic_step) ==
    LET c == r.ctx
        low == IF num_skeletons < 1
               THEN 0
               ELSE IF Below(smooth_energy, c.dynamic_threshold)
                    THEN c.low_energy_frames + logic_step
                    ELSE 0
        c1 == [c EXCEPT !.low_energy_frames = low]
    IN  IF low >= frames_end_needed
        THEN [ ctx |-> [c1 EXCEPT !.state = SEARCHING,
                                  !.frames_held = 0,
                                  !.baseline_readings = <<>>],
               clip |-> save_clip(c1, timestamp + config.post_point_buffer),
               cut |-> "rally" ]
        ELSE [r EXCEPT !.ctx = c1]

\* the if / elif chain on the state the override block left
StateBranch(r, timestamp, active_zones, smooth_energy, num_skeletons, logic_step) ==
    CASE r.ctx.state = SEARCHING -> SearchingBranch(r, active_zones, smooth_energy, logic_step)
      [] r.ctx.state = LOCKED -> LockedBranch(r, timestamp, active_zones, smooth_energy)
      [] r.ctx.state = PROBATION -> ProbationBranch(r, timestamp, smooth_energy, logic_step)
      [] r.ctx.state = RALLY ->
            RallyBranch(r, timestamp, smooth_energy, num_skeletons, logic_step)

UpdateResult(c, timestamp, active_zones, smooth_energy, num_skeletons, logic_step) ==
    LET r0 == [ctx |-> PeakTracking(c, smooth_energy), clip |-> NoClip, cut |-> "none"]
        r1 == GlobalOverride(r0, timestamp, active_zones, logic_step)
    IN  StateBranch(r1, timestamp, active_zones, smooth_energy, num_skeletons, logic_step)

\* no threshold calibrated yet
Uncalibrated == [n |-> -1, d |-> 1]

\* what the calls fed, kept beside the machine: the frames of the present
\* unbroken run of occupied ticks, per state the tick found the machine in;
\* the timestamp of the last LOCKED -> PROBATION call; the largest
\* smooth_energy of the calls that found the machine in PROBATION or RALLY
\* since then (0 if none).
\* low_ticks, low_step: the number of ticks of the present unbroken run of
\* RALLY ticks with a skeleton, unoccupied zones and energy below the
\* threshold, and their common logic_step (0 if they differ).
\* closures, serves: the closing transitions and the LOCKED -> PROBATION
\* transitions made so far.
\* readings: the energies of the ticks that found the machine in SEARCHING
\* with the zones occupied or in LOCKED, the tick of a force cut included,
\* since the last zone drop in SEARCHING, clip closure, force cut or reset.
\* forced: LOCKED was entered through a force cut, kept until the tick after
\* the machine left LOCKED.
\* threshold: the calibration of those readings at the last serve.
NextHist(c, post, timestamp, active_zones, smooth_energy, num_skeletons, logic_step) ==
    LET occupied == active_zones >= config.min_occupied_zones
        served == c.state = LOCKED /\ post.state = PROBATION
        closing == \/ c.state = PROBATION /\ post.state = SEARCHING
                   \/ c.state = RALLY /\ post.state \in {SEARCHING, LOCKED}
        quiet == /\ c.state = RALLY /\ num_skeletons >= 1 /\ ~occupied
                 /\ Below(smooth_energy, c.dynamic_threshold)
        readings == CASE c.state = SEARCHING ->
                            IF occupied THEN Append(hist.readings, smooth_energy) ELSE <<>>
                      [] c.state = LOCKED -> Append(hist.readings, smooth_energy)
                      [] c.state = RALLY /\ post.state = LOCKED -> <<smooth_energy>>
                      [] OTHER -> IF closing THEN <<>> ELSE hist.readings
    IN  [ low_ticks |-> IF quiet THEN hist.low_ticks + 1 ELSE 0,
          low_step |-> IF ~quiet THEN 0
                       ELSE IF hist.low_ticks = 0 \/ hist.low_step = logic_step THEN logic_step
                       ELSE 0,
          closures |-> IF closing THEN hist.closures + 1 ELSE hist.closures,
          serves |-> IF served THEN hist.serves + 1 ELSE hist.serves,
          readings |-> readings,
          forced |-> IF c.state = RALLY /\ post.state = LOCKED THEN TRUE
                     ELSE IF c.state = LOCKED THEN hist.forced
                     ELSE FALSE,
          threshold |-> IF served
                        THEN calculate_dynamic_threshold(readings,
                                                         config.base_sensitivity,
                                                         config.min_dynamic_threshold,
                                                         config.max_dynamic_threshold)
                        ELSE hist.threshold,
          searching |-> IF c.state = SEARCHING /\ occupied
                        THEN hist.searching + logic_step ELSE 0,
          rally |-> IF c.state = RALLY /\ occupied
                    THEN hist.rally + logic_step ELSE 0,
          serve |-> IF served THEN timestamp ELSE hist.serve,
          peak |-> IF served THEN 0
                   ELSE IF c.state \in {PROBATION, RALLY}
                   THEN IMax(hist.peak, smooth_energy)
                   ELSE hist.peak,
          prev_timestamp |-> IF call.op = "update" THEN call.timestamp ELSE -1 ]

\* prev_timestamp: the timestamp of the update() call before the last one, -1 if none
NoHist ==
    [ searching |-> 0, rally |-> 0, serve |-> 0, peak |-> 0, prev_timestamp |-> -1,
      low_ticks |-> 0, low_step |-> 0, closures |-> 0, serves |-> 0, readings |-> <<>>, forced |-> FALSE,
      threshold |-> Uncalibrated ]

\* no pure function applied yet
NoProbe == [fn |-> "none"]

\* EnergyCalculator(config) followed by set_scale_factor(scale_factor); the
\* scale factor is 1 / scale_den
EnergyCalculator(scale_den) ==
    [ prev_skeletons |-> <<>>,
      smooth_energy  |-> Frac(0, 1),
      scale_den      |-> scale_den ]

\* ZoneManager(config): no zones loaded yet
ZoneManager == [zones |-> <<>>, scaled_zones |-> <<>>, scale_factor |-> Frac(1, 1)]

\* process_video not entered
NoLoop == [pc |-> "idle"]

\* faulty variant: the completed clip is put at the head of the list
AppendCompleted_AtHead(cs, r) == IF r.cut # "none" THEN <<r.clip>> \o cs ELSE cs

\* if completed_clip: self.clips.append(completed_clip)
AppendCompleted(cs, r) == IF r.cut # "none" THEN Append(cs, r.clip) ELSE cs

\* update(): what the call does to the machine
UpdateMachine(timestamp, active_zones, smooth_energy, num_skeletons, logic_step) ==
    LET r == UpdateResult(ctx, timestamp, active_zones, smooth_energy,
                          num_skeletons, logic_step)
    IN  /\ ctx' = r.ctx
        /\ clips' = AppendCompleted(clips, r)
        /\ call' = [ op |-> "update",
                     timestamp |-> timestamp,
                     active_zones |-> active_zones,
                     smooth_energy |-> smooth_energy,
                     num_skeletons |-> num_skeletons,
                     logic_step |-> logic_step,
                     pre |-> ctx,
                     pre_clips |-> clips,
                     ret |-> r.clip,
                     cut |-> r.cut ]
        /\ hist' = NextHist(ctx, r.ctx, timestamp, active_zones, smooth_energy,
                            num_skeletons, logic_step)

\* update() called on its own: nothing but the machine changes
Update(timestamp, active_zones, smooth_energy, num_skeletons, logic_step) ==
    /\ UpdateMachine(timestamp, active_zones, smooth_energy, num_skeletons, logic_step)
    /\ UNCHANGED <<config, fps, probe, energy_calc, zone_mgr>>

\* the lists explored stay within the bounds
WithinBounds(timestamp, active_zones, smooth_energy, num_skeletons, logic_step) ==
    LET r == UpdateResult(ctx, timestamp, active_zones, smooth_energy,
                          num_skeletons, logic_step)
    IN  /\ Len(r.ctx.baseline_readings) <= MaxBaseline
        /\ Len(AppendCompleted(clips, r)) <= MaxClips

\* process_video: the next sampled frame is logic_step video frames on, its
\* timestamp is frame_idx / fps (exact for the fps of Machines), and it is fed
\* to update().  update() takes logic_step with every call, so the step is
\* drawn per tick; timestamps are strictly increasing.
ProcessFrame ==
    \E logic_step \in 1..MaxStep :
      LET idx == frame_idx + logic_step
          timestamp == (idx * TimeDen) \div fps
      IN  /\ idx <= MaxFrames
          /\ frame_idx' = idx
          /\ UNCHANGED loop
          /\ \E active_zones \in (config.min_occupied_zones - 1)..MaxZones, smooth_energy \in Energies,
                num_skeletons \in 0..MaxSkeletons :
               /\ WithinBounds(timestamp, active_zones, smooth_energy, num_skeletons, logic_step)
               /\ Update(timestamp, active_zones, smooth_energy, num_skeletons, logic_step)

\* reset(): a fresh context and an empty clip list
\* faulty variant: the calibrated threshold survives the reset
reset_ctx_KeepThreshold == [StateMachineContext EXCEPT !.dynamic_threshold = ctx.dynamic_threshold]

reset_ctx == StateMachineContext
reset_clips == <<>>

\* reset() before the next video; its frames are counted from 0 again
Reset ==
    /\ ctx' = reset_ctx
    /\ clips' = reset_clips
    /\ frame_idx' = 0
    /\ call' = [ op |-> "reset", timestamp |-> 0, active_zones |-> 0, smooth_energy |-> 0,
                 num_skeletons |-> 0, logic_step |-> 0, pre |-> ctx, pre_clips |-> clips,
                 ret |-> NoClip, cut |-> "none" ]
    /\ hist' = NoHist
    /\ UNCHANGED <<config, fps, probe, energy_calc, zone_mgr, loop>>

\* StateMachine(config, fps), nothing fed yet
ConstructMachine(m) ==
    /\ config = m[1] /\ fps = m[2]
    /\ ctx = StateMachineContext
    /\ clips = <<>>
    /\ frame_idx = 0
    /\ call = [ op |-> "init", timestamp |-> 0, active_zones |-> 0, smooth_energy |-> 0,
                num_skeletons |-> 0, logic_step |-> 0, pre |-> StateMachineContext,
                pre_clips |-> <<>>, ret |-> NoClip, cut |-> "none" ]
    /\ hist = NoHist
    /\ zone_mgr = ZoneManager

\* the same outside process_video
Construct(m) == ConstructMachine(m) /\ loop = NoLoop

Init == \E m \in Machines : Construct(m) /\ probe = NoProbe /\ energy_calc = EnergyCalculator(1)

Next == ProcessFrame \/ Reset

Spec == Init /\ [][Next]_vars

\* the same program built with the tuned configuration
InitTuned == Construct(<<TunedConfig, 2>>) /\ probe = NoProbe /\ energy_calc = EnergyCalculator(1)

SpecTuned == InitTuned /\ [][Next]_vars

\* machines with short low-energy requirements: int(0.5 * 1) = 0 frames for
\* the tuned configuration at 1 fps, int(1.0 * 2) = 2 frames for the quick one
ShortMachines == {<<TunedConfig, 1>>, <<QuickConfig, 2>>}

InitShort ==
    \E m \in ShortMachines : Construct(m) /\ probe = NoProbe /\ energy_calc = EnergyCalculator(1)

SpecShort == InitShort /\ [][Next]_vars

(* ------------------- update() called by any caller -------------------- *)
\* update() is a public method: a caller other than process_video may hand it
\* any timestamp, one not greater than the previous one included.  The calls
\* feed quiet energy with one skeleton; frame_idx counts the frames fed.
FeedTimes == {TimeDen, 2 * TimeDen, 3 * TimeDen}

FeedAny ==
    \E timestamp \in FeedTimes, logic_step \in 1..MaxStep,
       active_zones \in (config.min_occupied_zones - 1)..MaxZones, smooth_energy \in {20 * EDen, 60 * EDen} :
        /\ frame_idx + logic_step <= MaxFeed
        /\ frame_idx' = frame_idx + logic_step
        /\ WithinBounds(timestamp, active_zones, smooth_energy, 1, logic_step)
        /\ Update(timestamp, active_zones, smooth_energy, 1, logic_step)
        /\ UNCHANGED loop

NextUnordered == FeedAny

SpecUnordered == Init /\ [][NextUnordered]_vars

(* ------------------------ synthetic streams --------------------------- *)
\* A stream of three phases of 3 s each at 30 fps with logic_step = 1: two
\* occupied zones at energy 20, then no occupied zone at the spike energy,
\* then no occupied zone at an energy below the threshold. Players stay visible.
ScenarioFps == TimeDen
PhaseFrames == 3 * ScenarioFps
ScenarioFrames == 3 * PhaseFrames
SpikeA == 150 * EDen
SpikeB == 60 * EDen
QuietEnergies == {0, 20 * EDen, 60 * EDen - 1}
ScenarioSkeletons == {1, 2}

InitScenario ==
    /\ Construct(<<DefaultConfig, ScenarioFps>>)
    /\ energy_calc = EnergyCalculator(1)
    /\ \E spike \in {SpikeA, SpikeB} : probe = [fn |-> "scenario", spike |-> spike]

ScenarioFrame ==
    LET idx == frame_idx + 1
        timestamp == (idx * TimeDen) \div fps
        active_zones == IF idx <= PhaseFrames THEN 2 ELSE 0
    IN  /\ idx <= ScenarioFrames
        /\ frame_idx' = idx
        /\ UNCHANGED loop
        /\ \E num_skeletons \in ScenarioSkeletons,
              smooth_energy \in (IF idx <= PhaseFrames THEN {20 * EDen}
                                 ELSE IF idx <= 2 * PhaseFrames THEN {probe.spike}
                                 ELSE QuietEnergies) :
                Update(timestamp, active_zones, smooth_energy, num_skeletons, 1)

NextScenario == ScenarioFrame

SpecScenario == InitScenario /\ [][NextScenario]_vars

(* ------------------------- EnergyCalculator --------------------------- *)
\* hip centres handed to calculate(): the corners of a 3 x 4 rectangle, whose
\* distances 3, 4 and 5 are whole numbers
Points == {<<0, 0>>, <<3, 0>>, <<0, 4>>, <<3, 4>>}

RECURSIVE PointLists(_)
PointLists(n) ==
    IF n = 0 THEN {<<>>}
    ELSE LET shorter == PointLists(n - 1)
         IN  shorter \cup {Append(l, p) : l \in {x \in shorter : Len(x) = n - 1}, p \in Points}

\* raw energies handed to update_smooth()
RawEnergies == {Frac(0, 1), Frac(3, 1), Frac(27, 1)}

\* np.linalg.norm(np.array(curr) - np.array(prev))
Dist(curr, prev) ==
    LET sq == (curr[1] - prev[1]) * (curr[1] - prev[1]) + (curr[2] - prev[2]) * (curr[2] - prev[2])
    IN  CHOOSE dist \in 0..sq : dist * dist = sq

\* the inner loop of calculate() from previous point i on: the nearest unused
\* previous point closer than max_dist, the first one on a tie; best_match 0 is None
RECURSIVE ScanPrev(_, _, _, _, _, _)
ScanPrev(prev_skeletons, curr, used_indices, i, min_dist, best_match) ==
    IF i > Len(prev_skeletons) THEN [min_dist |-> min_dist, best_match |-> best_match]
    ELSE IF i \in used_indices
    THEN ScanPrev(prev_skeletons, curr, used_indices, i + 1, min_dist, best_match)
    ELSE LET dist == Dist(curr, prev_skeletons[i]) IN
         IF dist < config.max_skeleton_match_distance /\ (best_match = 0 \/ dist < min_dist)
         THEN ScanPrev(prev_skeletons, curr, used_indices, i + 1, dist, i)
         ELSE ScanPrev(prev_skeletons, curr, used_indices, i + 1, min_dist, best_match)

\* the outer loop of calculate() from current point k on; pairs lists the
\* matches made, <<index of the current point, index of the previous point>>
RECURSIVE MatchFrom(_, _, _, _, _, _)
MatchFrom(prev_skeletons, current_skeletons, k, used_indices, total_movement, pairs) ==
    IF k > Len(current_skeletons)
    THEN [total_movement |-> total_movement, pairs |-> pairs]
    ELSE LET m == ScanPrev(prev_skeletons, current_skeletons[k], used_indices, 1, 0, 0) IN
         IF m.best_match # 0
         THEN MatchFrom(prev_skeletons, current_skeletons, k + 1, used_indices \cup {m.best_match},
                        total_movement + m.min_dist, Append(pairs, <<k, m.best_match>>))
         ELSE MatchFrom(prev_skeletons, current_skeletons, k + 1, used_indices, total_movement, pairs)

\* faulty variant: an empty frame is not stored
calculate_KeepsPrevOnEmpty(calc, current_skeletons) ==
    IF calc.prev_skeletons = <<>>
    THEN [prev_skeletons |-> current_skeletons, ret |-> Frac(0, 1), pairs |-> <<>>]
    ELSE IF current_skeletons = <<>>
    THEN [prev_skeletons |-> calc.prev_skeletons, ret |-> Frac(0, 1), pairs |-> <<>>]
    ELSE LET m == MatchFrom(calc.prev_skeletons, current_skeletons, 1, {}, 0, <<>>)
         IN  [ prev_skeletons |-> current_skeletons,
               ret |-> Frac(m.total_movement * calc.scale_den, 1),
               pairs |-> m.pairs ]

\* faulty variant: a previous point may be matched again
calculate_ReusesPrev(calc, current_skeletons) ==
    IF calc.prev_skeletons = <<>> \/ current_skeletons = <<>>
    THEN [prev_skeletons |-> current_skeletons, ret |-> Frac(0, 1), pairs |-> <<>>]
    ELSE LET one(k) == ScanPrev(calc.prev_skeletons, current_skeletons[k], {}, 1, 0, 0)
             matched == {k \in 1..Len(current_skeletons) : one(k).best_match # 0}
             RECURSIVE total(_)
             total(k) == IF k = 0 THEN 0
                         ELSE total(k - 1) + (IF k \in matched THEN one(k).min_dist ELSE 0)
             RECURSIVE pairs(_)
             pairs(k) == IF k = 0 THEN <<>>
                         ELSE IF k \in matched THEN Append(pairs(k - 1), <<k, one(k).best_match>>)
                         ELSE pairs(k - 1)
         IN  [ prev_skeletons |-> current_skeletons,
               ret |-> Frac(total(Len(current_skeletons)) * calc.scale_den, 1),
               pairs |-> pairs(Len(current_skeletons)) ]

\* calculate(current_skeletons): the new prev_skeletons, the value returned
\* and the matches made.  The scale factor is 1 / scale_den, so the
\* multiplication by 1 / scale_factor is one by scale_den.
calculate(calc, current_skeletons) ==
    IF calc.prev_skeletons = <<>> \/ current_skeletons = <<>>
    THEN [prev_skeletons |-> current_skeletons, ret |-> Frac(0, 1), pairs |-> <<>>]
    ELSE LET m == MatchFrom(calc.prev_skeletons, current_skeletons, 1, {}, 0, <<>>)
         IN  [ prev_skeletons |-> current_skeletons,
               ret |-> IF calc.scale_den # 1
                       THEN Frac(m.total_movement * calc.scale_den, 1)
                       ELSE Frac(m.total_movement, 1),
               pairs |-> m.pairs ]

\* update_smooth(raw_energy): (raw_energy * alpha) + (self.smooth_energy * (1 - alpha)),
\* each operation rounded
update_smooth(calc, raw_energy) ==
    LET alpha == Float(config.energy_smoothing_factor)
    IN  FloatAdd(FloatMul(raw_energy, alpha),
                 FloatMul(calc.smooth_energy, FloatSub(Frac(1, 1), alpha)))

Calculate ==
    \E current_skeletons \in PointLists(MaxPoints) :
        LET r == calculate(energy_calc, current_skeletons) IN
        /\ energy_calc' = [energy_calc EXCEPT !.prev_skeletons = r.prev_skeletons]
        /\ probe' = [ fn |-> "calculate",
                      prev_skeletons |-> energy_calc.prev_skeletons,
                      current_skeletons |-> current_skeletons,
                      ret |-> r.ret,
                      pairs |-> r.pairs ]
        /\ UNCHANGED <<config, fps, ctx, clips, frame_idx, call, hist, zone_mgr, loop>>

UpdateSmooth ==
    \E raw_energy \in RawEnergies :
        LET smooth == update_smooth(energy_calc, raw_energy) IN
        /\ energy_calc' = [energy_calc EXCEPT !.smooth_energy = smooth]
        /\ probe' = [ fn |-> "update_smooth",
                      raw_energy |-> raw_energy,
                      smooth_prev |-> energy_calc.smooth_energy,
                      ret |-> smooth ]
        /\ UNCHANGED <<config, fps, ctx, clips, frame_idx, call, hist, zone_mgr, loop>>

\* EnergyCalculator.reset()
ResetCalc ==
    /\ energy_calc' = [energy_calc EXCEPT !.prev_skeletons = <<>>, !.smooth_energy = Frac(0, 1)]
    /\ probe' = [fn |-> "reset"]
    /\ UNCHANGED <<config, fps, ctx, clips, frame_idx, call, hist, zone_mgr, loop>>

InitEnergy ==
    /\ \E c \in EnergyConfigs : Construct(<<c, 1>>)
    /\ \E scale_den \in {1, 2} : energy_calc = EnergyCalculator(scale_den)
    /\ probe = NoProbe

NextEnergy == Calculate \/ ResetCalc

SpecEnergy == InitEnergy /\ [][NextEnergy]_vars

InitSmooth ==
    /\ \E c \in SmoothConfigs : Construct(<<c, 1>>)
    /\ energy_calc = EnergyCalculator(1)
    /\ probe = NoProbe

NextSmooth == UpdateSmooth \/ ResetCalc

SpecSmooth == InitSmooth /\ [][NextSmooth]_vars

(* ------------------ the pure functions, called directly ---------------- *)
\* arguments of ClipClassifier.classify: durations in 1/TimeDen s (negative
\* ones included), peak energies in 1/EDen units
Durations == (-MaxDuration)..MaxDuration
PeakEnergies == 0..MaxPeak

\* arguments of calculate_dynamic_threshold, in 1/EDen units
ReadingValues == {0, 60 * EDen, 301}
RECURSIVE ReadingLists(_)
ReadingLists(n) ==
    IF n = 0 THEN {<<>>}
    ELSE LET shorter == ReadingLists(n - 1)
         IN  shorter \cup {Append(l, v) : l \in {x \in shorter : Len(x) = n - 1}, v \in ReadingValues}
Sensitivities == {-15 * EDen, 15 * EDen, 45 * EDen}
Thresholds == {0, 60 * EDen, 100 * EDen}

\* classifier.classify(duration, peak_energy)
ClassifyCall ==
    \E duration \in Durations, peak_energy \in PeakEnergies :
        /\ probe' = [ fn |-> "classify",
                      duration |-> duration,
                      peak_energy |-> peak_energy,
                      ret |-> classify(duration, peak_energy) ]
        /\ UNCHANGED <<config, fps, ctx, clips, frame_idx, call, hist, energy_calc, zone_mgr, loop>>

\* calculate_dynamic_threshold(baseline_readings, base_sensitivity, min_threshold, max_threshold)
CalibrateCall ==
    \E baseline_readings \in ReadingLists(MaxReadings), base_sensitivity \in Sensitivities,
       min_threshold \in Thresholds, max_threshold \in Thresholds :
        /\ probe' = [ fn |-> "calculate_dynamic_threshold",
                      baseline_readings |-> baseline_readings,
                      base_sensitivity |-> base_sensitivity,
                      min_threshold |-> min_threshold,
                      max_threshold |-> max_threshold,
                      ret |-> calculate_dynamic_threshold(baseline_readings, base_sensitivity,
                                                          min_threshold, max_threshold) ]
        /\ UNCHANGED <<config, fps, ctx, clips, frame_idx, call, hist, energy_calc, zone_mgr, loop>>

NextPure == ClassifyCall \/ CalibrateCall

SpecPure == Init /\ [][NextPure]_vars


(* ============================ ZoneManager ============================= *)
\* zone polygons as the zones file gives them: vertex lists in pixels of the
\* original frame (a square, a triangle with odd coordinates, an L shape)
ZonePolygons ==
    { << <<0, 0>>, <<4, 0>>, <<4, 4>>, <<0, 4>> >>,
      << <<4, 0>>, <<7, 0>>, <<7, 3>> >>,
      << <<0, 0>>, <<4, 0>>, <<4, 2>>, <<2, 2>>, <<2, 4>>, <<0, 4>> >> }

ZoneLists == UNION {[1..n -> ZonePolygons] : n \in 0..MaxZones}

\* ankle points: inside, on an edge, on a vertex, in the notch of the L shape,
\* outside every zone
AnklePoints == {<<1, 1>>, <<4, 2>>, <<4, 0>>, <<3, 3>>, <<6, 1>>, <<9, 9>>}

AnkleLists == UNION {[1..n -> AnklePoints] : n \in 0..MaxAnkles}

\* widths of the source video; the processed frame is config.process_width wide
OriginalWidths == {640, 1280, 2560}

\* the point lies on the segment from a to b
OnSegment(point, a, b) ==
    /\ (b[1] - a[1]) * (point[2] - a[2]) = (b[2] - a[2]) * (point[1] - a[1])
    /\ (a[1] <= point[1] /\ point[1] <= b[1]) \/ (b[1] <= point[1] /\ point[1] <= a[1])
    /\ (a[2] <= point[2] /\ point[2] <= b[2]) \/ (b[2] <= point[2] /\ point[2] <= a[2])

\* the horizontal ray from the point to the right crosses the edge from a to b
Crosses(point, a, b) ==
    /\ (a[2] > point[2]) # (b[2] > point[2])
    /\ LET dy == b[2] - a[2]
           lhs == (point[1] - a[1]) * dy
           rhs == (point[2] - a[2]) * (b[1] - a[1])
       IN  IF dy > 0 THEN lhs < rhs ELSE lhs > rhs

\* cv2.pointPolygonTest(contour, point, False): +1 inside, 0 on an edge or a
\* vertex, -1 outside
pointPolygonTest(zone_contour, point) ==
    LET n == Len(zone_contour)
        next(i) == zone_contour[(i % n) + 1]
    IN  IF \E i \in 1..n : OnSegment(point, zone_contour[i], next(i)) THEN 0
        ELSE IF Cardinality({i \in 1..n : Crosses(point, zone_contour[i], next(i))}) % 2 = 1
             THEN 1
             ELSE -1

\* faulty variant: points on the boundary are outside
point_in_zone_Strict(point, zone_contour) == pointPolygonTest(zone_contour, point) > 0

point_in_zone(point, zone_contour) == pointPolygonTest(zone_contour, point) >= 0

\* the polygons check_occupancy tests: the scaled ones once scale_zones ran
ZonesToCheck(mgr) == IF mgr.scaled_zones # <<>> THEN mgr.scaled_zones ELSE mgr.zones

\* one iteration of the loop over the ankles
MarkZones(zones_to_check, ankle, occupied) ==
    [i \in 1..Len(zones_to_check) |->
        IF point_in_zone(ankle, zones_to_check[i]) THEN TRUE ELSE occupied[i]]

RECURSIVE MarkAnkles(_, _, _, _)
MarkAnkles(zones_to_check, ankles, k, occupied) ==
    IF k > Len(ankles) THEN occupied
    ELSE MarkAnkles(zones_to_check, ankles, k + 1, MarkZones(zones_to_check, ankles[k], occupied))

\* faulty variant: every ankle overwrites the flags of the ankles before it
check_occupancy_LastAnkle(mgr, ankles) ==
    LET zones_to_check == ZonesToCheck(mgr)
        occupied ==
            [i \in 1..Len(zones_to_check) |->
                /\ ankles # <<>>
                /\ point_in_zone(ankles[Len(ankles)], zones_to_check[i])]
    IN  [ active_count |-> Cardinality({i \in 1..Len(occupied) : occupied[i]}),
          occupancy |-> occupied ]

check_occupancy(mgr, ankles) ==
    LET zones_to_check == ZonesToCheck(mgr)
        occupied == MarkAnkles(zones_to_check, ankles, 1, [i \in 1..Len(zones_to_check) |-> FALSE])
    IN  [ active_count |-> Cardinality({i \in 1..Len(occupied) : occupied[i]}),
          occupancy |-> occupied ]

\* (zone * scale_factor).astype(int32), scale_factor = target_width / original_width
ScaleZone(zone, original_width, target_width) ==
    [i \in 1..Len(zone) |->
        << (zone[i][1] * target_width) \div original_width,
           (zone[i][2] * target_width) \div original_width >>]

LoadZones ==
    /\ zone_mgr.zones = <<>>
    /\ \E data \in ZoneLists : zone_mgr' = [zone_mgr EXCEPT !.zones = data]
    /\ probe' = [fn |-> "load_zones"]
    /\ UNCHANGED <<config, fps, ctx, clips, frame_idx, call, hist, energy_calc, loop>>

ScaleZones ==
    /\ zone_mgr.zones # <<>>
    /\ zone_mgr.scaled_zones = <<>>
    /\ \E original_width \in OriginalWidths :
          /\ zone_mgr' = [zone_mgr EXCEPT
                            !.scale_factor = Frac(config.process_width, original_width),
                            !.scaled_zones =
                                [i \in 1..Len(zone_mgr.zones) |->
                                    ScaleZone(zone_mgr.zones[i], original_width, config.process_width)]]
          /\ probe' = [ fn |-> "scale_zones",
                        original_width |-> original_width,
                        target_width |-> config.process_width,
                        mgr |-> zone_mgr ]
    /\ UNCHANGED <<config, fps, ctx, clips, frame_idx, call, hist, energy_calc, loop>>

CheckOccupancy ==
    \E ankles \in AnkleLists :
        LET zone_status == check_occupancy(zone_mgr, ankles) IN
        /\ probe' = [ fn |-> "check_occupancy",
                      ankles |-> ankles,
                      mgr |-> zone_mgr,
                      ret |-> zone_status ]
        /\ UNCHANGED <<config, fps, ctx, clips, frame_idx, call, hist, energy_calc, zone_mgr, loop>>

NextZones == LoadZones \/ ScaleZones \/ CheckOccupancy

SpecZones == Init /\ [][NextZones]_vars


(* ====================== main() and process_video ====================== *)
\* keyword arguments Config(...) is constructed with
ConfigArgs ==
    [ energy_smoothing_factor : {Frac(0, 1), Frac(3, 10), Frac(3, 2)},
      thresholds              : {<<60 * EDen, 60 * EDen>>, <<60 * EDen, 30 * EDen>>},
      inference_batch_size    : {0, 2, 3},
      skip_frames             : {0, 1},
      show_visuals            : BOOLEAN ]

\* Config(**args): the fields as the dataclass stores them
Config(args) ==
    [DefaultConfig EXCEPT !.energy_smoothing_factor = args.energy_smoothing_factor,
                          !.min_dynamic_threshold = args.thresholds[1],
                          !.max_dynamic_threshold = args.thresholds[2],
                          !.inference_batch_size = args.inference_batch_size,
                          !.skip_frames = args.skip_frames,
                          !.show_visuals = args.show_visuals]

\* faulty variant: the smoothing factor is not validated
Config_post_init_NoSmoothingCheck(c) ==
    IF c.process_fps <= 0 THEN "process_fps must be > 0"
    ELSE IF c.skip_frames < 0 THEN "skip_frames must be >= 0"
    ELSE IF c.inference_batch_size < 1 THEN "inference_batch_size must be >= 1"
    ELSE IF c.process_width < 100 THEN "process_width must be >= 100"
    ELSE IF c.min_dynamic_threshold > c.max_dynamic_threshold
         THEN "min_dynamic_threshold must be <= max_dynamic_threshold"
    ELSE "ok"

\* Config.__post_init__: the ValueError raised, "ok" if none
Config_post_init(c) ==
    IF c.process_fps <= 0 THEN "process_fps must be > 0"
    ELSE IF c.skip_frames < 0 THEN "skip_frames must be >= 0"
    ELSE IF c.inference_batch_size < 1 THEN "inference_batch_size must be >= 1"
    ELSE IF c.process_width < 100 THEN "process_width must be >= 100"
    ELSE IF ~(FLess(Frac(0, 1), c.energy_smoothing_factor)
              /\ ~FLess(Frac(1, 1), c.energy_smoothing_factor))
         THEN "energy_smoothing_factor must be between 0 and 1"
    ELSE IF c.min_dynamic_threshold > c.max_dynamic_threshold
         THEN "min_dynamic_threshold must be <= max_dynamic_threshold"
    ELSE "ok"

\* cap.get(CAP_PROP_FPS) of the videos explored
VideoFps == {1, TimeDen}

\* what the detector finds in a frame: one player standing on both zones, or
\* one player elsewhere with no ankle seen
Detections ==
    { [skeletons |-> << <<0, 0>> >>, ankles |-> << <<1, 1>>, <<6, 1>> >>],
      [skeletons |-> << <<3, 4>> >>, ankles |-> <<>>] }

\* the zones file of the run: the square and the triangle
LoopZones ==
    << << <<0, 0>>, <<4, 0>>, <<4, 4>>, <<0, 4>> >>, << <<4, 0>>, <<7, 0>>, <<7, 3>> >> >>

\* main() entered, create_config not yet called
MainEntry ==
    [ pc |-> "main", args |-> <<>>, logic_step |-> 0, batch_size |-> 0, batch |-> <<>>,
      detections |-> <<>>, i |-> 0, ret |-> TRUE, user_quit |-> FALSE, fed |-> <<>>,
      result |-> <<>> ]

\* a smoothed energy on the grid of the state-machine energies (1/EDen)
EnergyUnits(x) == (x.n * EDen) \div x.d

\* faulty variant: a batch is processed only when it is full
BatchDue_FullOnly(batch, batch_size, ret) == Len(batch) >= batch_size

\* len(batch) >= batch_size or (not ret and batch)
BatchDue(batch, batch_size, ret) == Len(batch) >= batch_size \/ (~ret /\ batch # <<>>)

\* main(): config = create_config(args), outside the try block; a ValueError
\* of __post_init__ ends the program
CreateConfig ==
    /\ loop.pc = "main"
    /\ \E args \in ConfigArgs :
          IF Config_post_init(Config(args)) = "ok"
          THEN /\ config' = Config(args)
               /\ loop' = [loop EXCEPT !.pc = "process_video", !.args = args]
          ELSE /\ config' = config
               /\ loop' = [loop EXCEPT !.pc = "raised", !.args = args]
    /\ UNCHANGED <<fps, ctx, clips, frame_idx, call, hist, probe, energy_calc, zone_mgr>>

\* process_video up to the main loop: the zones loaded and scaled, the
\* calculator and the machine constructed, logic_step computed
EnterProcessVideo ==
    /\ loop.pc = "process_video"
    /\ \E video_fps \in VideoFps, original_width \in {config.process_width} :
          /\ fps' = video_fps
          /\ zone_mgr' = [ zones |-> LoopZones,
                           scale_factor |-> Frac(config.process_width, original_width),
                           scaled_zones |->
                               [z \in 1..Len(LoopZones) |->
                                   ScaleZone(LoopZones[z], original_width, config.process_width)] ]
          /\ loop' = [loop EXCEPT
                        !.pc = "read",
                        !.logic_step =
                            LET step == RoundHalfEven(video_fps * (config.skip_frames + 1),
                                                      config.process_fps)
                            IN  IF step > 1 THEN step ELSE 1,
                        !.batch_size = config.inference_batch_size]
    /\ energy_calc' = EnergyCalculator(1)
    /\ ctx' = StateMachineContext
    /\ clips' = <<>>
    /\ frame_idx' = 0
    /\ UNCHANGED <<config, call, hist, probe>>

\* one iteration of the while loop up to the for loop: cap.read(), the frame
\* counted and sampled, the batch handed to detect_batch when it is due
ReadFrame ==
    /\ loop.pc = "read"
    /\ \E ret \in {r \in BOOLEAN : r => frame_idx < MaxVideo} :
          LET idx == IF ret THEN frame_idx + 1 ELSE frame_idx
              skipped == ret /\ idx % loop.logic_step # 0
              batch == IF ret /\ ~skipped THEN Append(loop.batch, idx) ELSE loop.batch
          IN  /\ frame_idx' = idx
              /\ IF skipped
                 THEN loop' = [loop EXCEPT !.ret = ret]
                 ELSE IF BatchDue(batch, loop.batch_size, ret)
                 THEN \E detections \in [1..Len(batch) -> Detections] :
                         loop' = [loop EXCEPT !.ret = ret, !.batch = batch,
                                              !.detections = detections,
                                              !.i = 1, !.user_quit = FALSE, !.pc = "for"]
                 ELSE loop' = [loop EXCEPT !.ret = ret, !.batch = batch,
                                           !.pc = IF ret THEN "read" ELSE "done"]
    /\ UNCHANGED <<config, fps, ctx, clips, call, hist, probe, energy_calc, zone_mgr>>

\* one iteration of the for loop over zip(batch, detections): occupancy, raw
\* and smoothed energy, update(); the preview may end the run; after the last
\* item batch.clear() and the end of the while iteration
ProcessItem ==
    /\ loop.pc = "for"
    /\ LET fi == loop.batch[loop.i]
           ts == (fi * TimeDen) \div fps
           detection == loop.detections[loop.i]
           zone_status == check_occupancy(zone_mgr, detection.ankles)
           raw == calculate(energy_calc, detection.skeletons)
           smooth_energy == update_smooth(energy_calc, raw.ret)
           last == loop.i >= Len(loop.batch) \/ loop.i >= Len(loop.detections)
       IN  /\ energy_calc' = [energy_calc EXCEPT !.prev_skeletons = raw.prev_skeletons,
                                                 !.smooth_energy = smooth_energy]
           /\ UpdateMachine(ts, zone_status.active_count, EnergyUnits(smooth_energy),
                            Len(detection.skeletons), loop.logic_step)
           /\ \E quit \in {q \in BOOLEAN : q => config.show_visuals} :
                 loop' = [loop EXCEPT
                            !.fed = Append(loop.fed, [fi |-> fi, ts |-> ts]),
                            !.user_quit = quit,
                            !.i = IF quit \/ last THEN 0 ELSE loop.i + 1,
                            !.batch = IF quit \/ last THEN <<>> ELSE loop.batch,
                            !.detections = IF quit \/ last THEN <<>> ELSE loop.detections,
                            !.pc = IF quit \/ (last /\ ~loop.ret) THEN "done"
                                   ELSE IF last THEN "read" ELSE "for"]
    /\ UNCHANGED <<config, fps, frame_idx, probe, zone_mgr>>

\* round(x, 3) of a time: in milliseconds
Round3(x) == RoundHalfEven(x * 1000, TimeDen)

\* ClipInfo.to_dict
to_dict(clip) ==
    [ start |-> Round3(clip.start),
      end |-> Round3(clip.end),
      duration |-> Round3(clip.end - clip.start),
      tag |-> clip.tag,
      confidence |-> clip.confidence,
      peak_energy |-> clip.peak_energy ]

\* faulty variant: a candidate still open in PROBATION or RALLY is closed
\* at the current timestamp and returned with the others
get_clips_FlushesOpen(c, list) ==
    IF c.state \in {PROBATION, RALLY}
    THEN Append(list, save_clip(c, call.timestamp))
    ELSE list

\* StateMachine.get_clips
get_clips(c, list) == list

\* process_video after the loop: the clips fetched from the machine and
\* converted into the "clips" entry of the result
ReturnResult ==
    /\ loop.pc = "done"
    /\ LET got == get_clips(ctx, clips)
       IN  loop' = [loop EXCEPT !.pc = "returned",
                                !.result = [k \in 1..Len(got) |-> to_dict(got[k])]]
    /\ UNCHANGED <<config, fps, ctx, clips, frame_idx, call, hist, probe, energy_calc, zone_mgr>>

InitLoop ==
    /\ ConstructMachine(<<DefaultConfig, 1>>)
    /\ probe = NoProbe
    /\ energy_calc = EnergyCalculator(1)
    /\ loop = MainEntry

NextLoop == CreateConfig \/ EnterProcessVideo \/ ReadFrame \/ ProcessItem \/ ReturnResult

SpecLoop == InitLoop /\ [][NextLoop]_vars


(* ============================== claims ================================ *)
\* the state is the one an update() call left
Called == call.op = "update"
\* the call saw the zones occupied
Occupied == call.active_zones >= config.min_occupied_zones
\* the call's timestamp minus the candidate start time it found
Elapsed == call.timestamp - call.pre.serve_time
\* the low-energy counter as the call's PROBATION / RALLY accumulation leaves it
LowCount ==
    IF Below(call.smooth_energy, call.pre.dynamic_threshold)
    THEN call.pre.low_energy_frames + call.logic_step
    ELSE 0

Edges ==
    { <<SEARCHING, LOCKED>>, <<LOCKED, PROBATION>>, <<PROBATION, RALLY>>,
      <<PROBATION, SEARCHING>>, <<RALLY, SEARCHING>>, <<RALLY, LOCKED>> }

\* C1: one update() call changes the state only along SEARCHING->LOCKED,
\* LOCKED->PROBATION, PROBATION->RALLY, PROBATION->SEARCHING, RALLY->SEARCHING
\* or RALLY->LOCKED.
C1_OnlyEdges ==
    Called /\ ctx.state # call.pre.state => <<call.pre.state, ctx.state>> \in Edges

\* a force cut: RALLY to LOCKED, the LOCKED block having run in the same call
C1_Witness ==
    Called /\ call.pre.state = RALLY /\ ctx.state = LOCKED /\ call.cut = "force"

\* C2 as stated: on an occupied SEARCHING tick the machine goes to LOCKED
\* exactly when the frames fed in the unbroken occupied run have reached
\* min_hold_duration * fps, and stays in SEARCHING while they are fewer.
C2_Original ==
    Called /\ call.pre.state = SEARCHING /\ Occupied =>
        (ctx.state = LOCKED <=> hist.searching * TimeDen >= config.min_hold_duration * fps)

\* C2 amended: the same with the threshold int(min_hold_duration * fps); the
\* machine stays in SEARCHING while the frames fed are fewer and goes to LOCKED
\* on the first tick at which they reach or pass it.
C2_HoldTruncated ==
    Called /\ call.pre.state = SEARCHING /\ Occupied =>
        /\ ctx.state = LOCKED <=>
               hist.searching >= (config.min_hold_duration * fps) \div TimeDen
        /\ ctx.state \in {SEARCHING, LOCKED}

\* LOCKED reached on the second of two occupied ticks of one frame each, the
\* frames fed being exactly int(2.5 * 1) = 2, fewer than 2.5
C2_Witness ==
    /\ Called /\ call.pre.state = SEARCHING /\ ctx.state = LOCKED
    /\ call.logic_step = 1
    /\ hist.searching = (config.min_hold_duration * fps) \div TimeDen
    /\ hist.searching * TimeDen < config.min_hold_duration * fps

\* C3: a RALLY tick makes a force cut exactly when the zones are occupied and
\* the frames fed over the unbroken run of occupied RALLY ticks have reached
\* one second of frames; only RALLY ticks make force cuts, and the clip ends
\* at timestamp - 1.0.
C3_ForceCutExactlyWhen ==
    Called =>
        /\ call.cut = "force" <=>
               (call.pre.state = RALLY /\ Occupied /\ hist.rally * TimeDen >= TimeDen * fps)
        /\ call.cut = "force" => call.ret.end = call.timestamp - TimeDen

\* a force cut the counter reached over two occupied ticks
C3_Witness ==
    /\ Called /\ call.cut = "force"
    /\ call.logic_step = 1 /\ call.pre.frames_held = 1 /\ hist.rally = 2

\* C4 as stated: after a force cut the state is LOCKED, the held-frame counter
\* is int(min_hold_duration * fps) and the baseline list is empty.
C4_Original ==
    Called /\ call.cut = "force" =>
        /\ ctx.state = LOCKED
        /\ ctx.frames_held = (config.min_hold_duration * fps) \div TimeDen
        /\ ctx.baseline_readings = <<>>

\* C4 amended: after a force cut the state is LOCKED, the held-frame counter is
\* int(min_hold_duration * fps) and the baseline list holds one reading, the
\* smooth_energy of the force-cut tick.
C4_ForceCutLeavesLocked ==
    Called /\ call.cut = "force" =>
        /\ ctx.state = LOCKED
        /\ ctx.frames_held = (config.min_hold_duration * fps) \div TimeDen
        /\ ctx.baseline_readings = <<call.smooth_energy>>

\* a force cut made while the list still held the readings of the old baseline
C4_Witness ==
    /\ Called /\ call.cut = "force"
    /\ Len(call.pre.baseline_readings) = 2
    /\ call.pre.frames_held # (config.min_hold_duration * fps) \div TimeDen

\* C5 as stated: a RALLY tick with no skeleton leaves the low-energy counter
\* not greater than before: it is reset to 0.
C5_Original ==
    Called /\ call.pre.state = RALLY /\ call.num_skeletons = 0 =>
        /\ ctx.low_energy_frames <= call.pre.low_energy_frames
        /\ ctx.low_energy_frames = 0

\* C5 amended: a RALLY tick with no skeleton never increases the low-energy
\* counter: it is reset to 0, except that a force-cut tick leaves it as it was.
C5_ShieldNeverCounts ==
    Called /\ call.pre.state = RALLY /\ call.num_skeletons = 0 =>
        /\ ctx.low_energy_frames <= call.pre.low_energy_frames
        /\ call.cut # "force" => ctx.low_energy_frames = 0
        /\ call.cut = "force" => ctx.low_energy_frames = call.pre.low_energy_frames

\* no skeleton, energy below the threshold, a counter that was running: reset
C5_Witness ==
    /\ Called /\ call.pre.state = RALLY /\ call.num_skeletons = 0
    /\ Below(call.smooth_energy, call.pre.dynamic_threshold)
    /\ call.pre.low_energy_frames > 0
    /\ ctx.state = RALLY /\ ctx.low_energy_frames = 0

\* C6: right after a LOCKED -> PROBATION call the held-frame counter, the
\* low-energy counter and the peak energy are all 0.
C6_ServeResetsCounters ==
    Called /\ call.pre.state = LOCKED /\ ctx.state = PROBATION =>
        /\ ctx.frames_held = 0
        /\ ctx.low_energy_frames = 0
        /\ ctx.clip_peak_energy = 0

\* C7: a LOCKED tick leaves the state exactly when active_zones is below the
\* minimum; then the threshold is the calibrator's result on the readings with
\* this tick's appended, the candidate start time is the timestamp and the
\* state is PROBATION; otherwise state, start time and threshold stay.
C7_LockedExit ==
    Called /\ call.pre.state = LOCKED =>
        IF call.active_zones < config.min_occupied_zones
        THEN /\ ctx.state = PROBATION
             /\ ctx.serve_time = call.timestamp
             /\ ctx.dynamic_threshold =
                    calculate_dynamic_threshold(
                        Append(call.pre.baseline_readings, call.smooth_energy),
                        config.base_sensitivity,
                        config.min_dynamic_threshold,
                        config.max_dynamic_threshold)
        ELSE /\ ctx.state = LOCKED
             /\ ctx.serve_time = call.pre.serve_time
             /\ ctx.dynamic_threshold = call.pre.dynamic_threshold

\* a serve whose threshold lies strictly between the rails and to which the
\* reading of the serve tick contributed: mean(20, 60) + 15 = 55
C7_Witness ==
    /\ Called /\ call.pre.state = LOCKED /\ ctx.state = PROBATION
    /\ call.pre.baseline_readings = <<20 * EDen>>
    /\ call.smooth_energy = 60 * EDen
    /\ ctx.dynamic_threshold = Frac(55 * EDen, 1)
    /\ ctx.serve_time = call.timestamp

\* C8: a PROBATION tick earlier than min_point_duration after the candidate
\* start neither changes the state nor emits a clip, and every clip closed
\* from PROBATION or RALLY is closed at least min_point_duration after its
\* candidate start.
C8_MinPointDuration ==
    Called =>
        /\ call.pre.state = PROBATION /\ Elapsed < config.min_point_duration =>
               ctx.state = PROBATION /\ call.cut = "none" /\ call.ret = NoClip
        /\ call.cut \in {"probation", "rally"} => Elapsed >= config.min_point_duration

\* an early PROBATION tick with the energy above the threshold: no promotion
C8_Witness ==
    /\ Called /\ call.pre.state = PROBATION /\ Elapsed < config.min_point_duration
    /\ Above(call.smooth_energy, call.pre.dynamic_threshold)
    /\ ctx.state = PROBATION

\* C9: a PROBATION tick at or after min_point_duration promotes to RALLY with
\* the low-energy counter 0 and no clip when the energy exceeds the threshold;
\* else closes a clip ending at timestamp + post_point_buffer and returns to
\* SEARCHING with held-frame counter 0 and baseline empty when the low-energy
\* counter has reached int(min_low_energy_duration * fps); else stays.
C9_ProbationDecision ==
    Called /\ call.pre.state = PROBATION /\ Elapsed >= config.min_point_duration =>
        IF Above(call.smooth_energy, call.pre.dynamic_threshold)
        THEN /\ ctx.state = RALLY
             /\ ctx.low_energy_frames = 0
             /\ call.cut = "none" /\ call.ret = NoClip
        ELSE IF LowCount >= (config.min_low_energy_duration * fps) \div TimeDen
        THEN /\ call.cut = "probation"
             /\ call.ret # NoClip
             /\ call.ret.end = call.timestamp + config.post_point_buffer
             /\ clips # <<>> /\ clips[Len(clips)] = call.ret
             /\ ctx.state = SEARCHING
             /\ ctx.frames_held = 0
             /\ ctx.baseline_readings = <<>>
        ELSE /\ ctx.state = PROBATION
             /\ call.cut = "none" /\ call.ret = NoClip

\* a PROBATION tick past the minimum with the energy equal to the threshold:
\* neither promoted nor closed
C9_Witness ==
    /\ Called /\ call.pre.state = PROBATION /\ Elapsed >= config.min_point_duration
    /\ ~Above(call.smooth_energy, call.pre.dynamic_threshold)
    /\ ~Below(call.smooth_energy, call.pre.dynamic_threshold)
    /\ ctx.state = PROBATION

\* C10: when RALLY ends on low energy the clip ends at timestamp +
\* post_point_buffer and the call leaves SEARCHING with the held-frame
\* counter 0, the low-energy counter 0 and the baseline list empty.
C10_RallyCloseClears ==
    Called /\ call.cut = "rally" =>
        /\ call.ret.end = call.timestamp + config.post_point_buffer
        /\ ctx.state = SEARCHING
        /\ ctx.frames_held = 0
        /\ ctx.low_energy_frames = 0
        /\ ctx.baseline_readings = <<>>

\* the call closed a clip
Closed == Called /\ call.ret # NoClip

\* C11: every clip, whichever block closed it, starts at max(0, s -
\* pre_serve_buffer), s being the timestamp of the last LOCKED -> PROBATION
\* call; so no clip starts before 0.
C11_ClipStart ==
    Closed =>
        /\ call.cut \in {"probation", "rally", "force"}
        /\ call.ret.start = IF hist.serve - config.pre_serve_buffer > 0
                            THEN hist.serve - config.pre_serve_buffer
                            ELSE 0
        /\ call.ret.start >= 0

\* a clip whose serve came later than pre_serve_buffer into the video
C11_Witness ==
    Closed /\ call.ret.start > 0 /\ call.ret.start = hist.serve - config.pre_serve_buffer

\* a clip whose start was clamped
C11_WitnessClamped ==
    Closed /\ call.cut = "force" /\ hist.serve < config.pre_serve_buffer /\ call.ret.start = 0

\* C12: every clip the machine creates has start < end once the buffers are
\* applied, force-cut clips included, timestamps being strictly increasing.
C12_StartBeforeEnd ==
    Closed => call.ret.start < call.ret.end

\* C13: an update() call either leaves the clip list as it was and returns
\* None, or appends one clip at the end and returns that clip; the clips
\* already in the list keep their place and their fields.
C13_AppendOnly ==
    Called =>
        \/ call.ret = NoClip /\ clips = call.pre_clips
        \/ call.ret # NoClip /\ clips = Append(call.pre_clips, call.ret)

\* a second, different clip appended behind the first
C13_Witness ==
    /\ Called /\ Len(call.pre_clips) = 1 /\ Len(clips) = 2
    /\ clips[1] = call.pre_clips[1] /\ clips[2] = call.ret /\ clips[1] # clips[2]

\* C14: the peak a clip is classified by and stores (truncated to an integer)
\* is the maximum of 0 and the smooth_energy of every call made while the
\* machine was in PROBATION or RALLY for that candidate, the closing call
\* included, whichever branch those calls ran; hist.peak is that maximum.
C14_PeakIsMax ==
    Closed =>
        /\ call.ret.peak_energy = hist.peak \div EDen
        /\ hist.peak >= call.smooth_energy
        /\ <<call.ret.tag, call.ret.confidence>> = classify(call.ret.end - call.ret.start, hist.peak)

\* a force cut whose peak was fed by an earlier tick of the rally, not by
\* the closing call
C14_Witness ==
    /\ Closed /\ call.cut = "force"
    /\ call.smooth_energy < hist.peak
    /\ call.ret.peak_energy = hist.peak \div EDen /\ call.ret.peak_energy > 0

\* a PROBATION closure whose peak was fed during PROBATION
C14_WitnessProbation ==
    /\ Closed /\ call.cut = "probation"
    /\ call.smooth_energy < hist.peak
    /\ call.ret.peak_energy = hist.peak \div EDen

\* C15: classify depends on peak_energy alone: ("Rally","High") above
\* rally_energy_req, else ("Noise","Low") below walk_energy_cap, else
\* ("Serve","Medium"); always one of these three pairs, and the same for
\* every value of the duration argument.
C15_ClassifyByPeak ==
    probe.fn = "classify" =>
        /\ probe.ret = IF probe.peak_energy > config.rally_energy_req THEN <<"Rally", "High">>
                       ELSE IF probe.peak_energy < config.walk_energy_cap THEN <<"Noise", "Low">>
                       ELSE <<"Serve", "Medium">>
        /\ probe.ret \in {<<"Rally", "High">>, <<"Noise", "Low">>, <<"Serve", "Medium">>}
        /\ \A d \in Durations : classify(d, probe.peak_energy) = probe.ret

\* a call with a negative duration and a peak in the middle band
C15_Witness ==
    /\ probe.fn = "classify" /\ probe.duration < 0
    /\ probe.peak_energy = config.walk_energy_cap /\ probe.ret = <<"Serve", "Medium">>

\* C16: for any list of baseline readings (the empty one included) and any
\* base sensitivity, calculate_dynamic_threshold returns a value within
\* [min_threshold, max_threshold], given min_threshold <= max_threshold.
C16_ThresholdWithinRails ==
    (probe.fn = "calculate_dynamic_threshold" /\ probe.min_threshold <= probe.max_threshold) =>
        /\ ~FLess(probe.ret, Frac(probe.min_threshold, 1))
        /\ ~FLess(Frac(probe.max_threshold, 1), probe.ret)

\* readings whose mean plus sensitivity lies above the ceiling: the ceiling is returned
C16_Witness ==
    /\ probe.fn = "calculate_dynamic_threshold" /\ probe.baseline_readings # <<>>
    /\ probe.min_threshold < probe.max_threshold
    /\ Sum(probe.baseline_readings) + probe.base_sensitivity * Len(probe.baseline_readings)
         > probe.max_threshold * Len(probe.baseline_readings)
    /\ probe.ret = Frac(probe.max_threshold, 1)

\* no readings: the fallback noise floor of 10 is used and clamped up to the floor
C16_WitnessEmpty ==
    /\ probe.fn = "calculate_dynamic_threshold" /\ probe.baseline_readings = <<>>
    /\ probe.min_threshold <= probe.max_threshold
    /\ 10 * EDen + probe.base_sensitivity < probe.min_threshold
    /\ probe.ret = Frac(probe.min_threshold, 1)

ScenarioDone(spike) == probe.fn = "scenario" /\ probe.spike = spike /\ frame_idx = ScenarioFrames

\* C17 as stated: scenario A (spike 150) ends with exactly one clip, tagged
\* "Rally" with confidence "High", starting at the serve time minus
\* pre_serve_buffer, with peak_energy 150.
C17_Original ==
    ScenarioDone(SpikeA) =>
        /\ Len(clips) = 1
        /\ clips[1].tag = "Rally" /\ clips[1].confidence = "High"
        /\ clips[1].start = hist.serve - config.pre_serve_buffer
        /\ clips[1].peak_energy = 150

\* C17: scenario A ends with exactly one clip, tagged "Rally" with confidence
\* "High" and peak_energy 150; the serve comes about 3 s into the stream, less
\* than pre_serve_buffer, so the clip starts at 0 (the start is clamped).
C17_ScenarioA ==
    /\ (probe.fn = "scenario" /\ probe.spike = SpikeA) => Len(clips) <= 1
    /\ ScenarioDone(SpikeA) =>
        /\ Len(clips) = 1
        /\ clips[1].tag = "Rally" /\ clips[1].confidence = "High"
        /\ hist.serve < config.pre_serve_buffer
        /\ clips[1].start = 0
        /\ clips[1].peak_energy = 150

C17_Witness ==
    /\ ScenarioDone(SpikeA) /\ Len(clips) = 1
    /\ clips[1].tag = "Rally" /\ clips[1].start = 0 /\ hist.serve > 0

\* C18: scenario B, the same stream with the energy peaking at 60 (between
\* walk_energy_cap and rally_energy_req), produces a clip tagged "Serve" with
\* confidence "Medium".
C18_ScenarioB ==
    /\ (probe.fn = "scenario" /\ probe.spike = SpikeB) => Len(clips) <= 1
    /\ ScenarioDone(SpikeB) =>
        /\ Len(clips) = 1
        /\ clips[1].tag = "Serve" /\ clips[1].confidence = "Medium"
        /\ clips[1].peak_energy = 60

C18_Witness ==
    /\ ScenarioDone(SpikeB) /\ Len(clips) = 1
    /\ clips[1].tag = "Serve" /\ clips[1].confidence = "Medium"

\* C20: reset(), after any sequence of updates, leaves the machine in
\* SEARCHING with all counters 0, an empty baseline list and an empty clip
\* list, in the very state of a freshly constructed machine with the same
\* configuration and fps (the calibrated threshold does not carry over), so
\* that whatever is fed next is handled as a fresh machine handles it.
C20_ResetIsFresh ==
    call.op = "reset" =>
        /\ ctx.state = SEARCHING
        /\ ctx.frames_held = 0 /\ ctx.low_energy_frames = 0
        /\ ctx.serve_time = 0 /\ ctx.clip_peak_energy = 0
        /\ ctx.baseline_readings = <<>>
        /\ ctx.dynamic_threshold = Frac(40 * EDen, 1)
        /\ clips = <<>>
        /\ \E m \in Machines :
              /\ config = m[1] /\ fps = m[2]
              /\ ctx = StateMachineContext /\ frame_idx = 0 /\ hist = NoHist

\* a reset of a machine that had a clip, a calibrated threshold and running counters
C20_Witness ==
    /\ call.op = "reset"
    /\ call.pre_clips # <<>>
    /\ call.pre.dynamic_threshold # ctx.dynamic_threshold
    /\ call.pre.low_energy_frames > 0
    /\ ctx = StateMachineContext /\ clips = <<>>

\* C27: a SEARCHING tick with the zones occupied adds logic_step to the
\* held-frame counter and appends its smooth_energy to the baseline list; one
\* with fewer zones sets the counter to 0, empties the list and stays in
\* SEARCHING; no SEARCHING tick changes the clip list, the candidate start
\* time, the peak energy or the dynamic threshold.
C27_SearchingTick ==
    (Called /\ call.pre.state = SEARCHING) =>
        /\ Occupied =>
              /\ ctx.frames_held = call.pre.frames_held + call.logic_step
              /\ ctx.baseline_readings = Append(call.pre.baseline_readings, call.smooth_energy)
        /\ ~Occupied =>
              /\ ctx.frames_held = 0
              /\ ctx.baseline_readings = <<>>
              /\ ctx.state = SEARCHING
        /\ clips = call.pre_clips /\ call.ret = NoClip
        /\ ctx.serve_time = call.pre.serve_time
        /\ ctx.clip_peak_energy = call.pre.clip_peak_energy
        /\ ctx.dynamic_threshold = call.pre.dynamic_threshold

\* an unoccupied tick that throws away a started hold
C27_Witness ==
    /\ Called /\ call.pre.state = SEARCHING /\ ~Occupied
    /\ call.pre.frames_held > 0 /\ call.pre.baseline_readings # <<>>
    /\ ctx.frames_held = 0 /\ ctx.baseline_readings = <<>>

\* an occupied tick that lengthens a started baseline
C27_WitnessOccupied ==
    /\ Called /\ call.pre.state = SEARCHING /\ Occupied
    /\ call.pre.frames_held > 0 /\ call.pre.baseline_readings # <<>>
    /\ ctx.frames_held = call.pre.frames_held + call.logic_step
    /\ Len(ctx.baseline_readings) = Len(call.pre.baseline_readings) + 1

\* C28: on every PROBATION tick, and on every RALLY tick with at least one
\* skeleton that is not a force cut, the low-energy counter grows by
\* logic_step when smooth_energy is strictly below the dynamic threshold and
\* is set to 0 otherwise, before the tick's decision; the decision leaves that
\* value in place (a promotion to RALLY happens only at a count of 0).
C28_LowEnergyCounter ==
    /\ (Called /\ call.pre.state = PROBATION) =>
          /\ ctx.low_energy_frames = LowCount
          /\ ctx.state = RALLY => ctx.low_energy_frames = 0
    /\ (Called /\ call.pre.state = RALLY /\ call.num_skeletons >= 1 /\ call.cut # "force") =>
          ctx.low_energy_frames = LowCount

\* a RALLY tick whose energy equals the threshold: the running count is dropped
C28_Witness ==
    /\ Called /\ call.pre.state = RALLY /\ call.num_skeletons >= 1 /\ call.cut # "force"
    /\ call.pre.low_energy_frames > 0
    /\ Frac(call.smooth_energy, 1) = call.pre.dynamic_threshold
    /\ ctx.low_energy_frames = 0

\* a PROBATION tick that counts
C28_WitnessProbation ==
    /\ Called /\ call.pre.state = PROBATION /\ call.pre.low_energy_frames > 0
    /\ ctx.state = PROBATION
    /\ ctx.low_energy_frames = call.pre.low_energy_frames + call.logic_step

\* C29: the baseline list is cleared when it is consumed: it is empty right
\* after the LOCKED -> PROBATION call and stays empty through PROBATION and RALLY.
C29_BaselineClearedWhenConsumed ==
    (Called /\ ctx.state \in {PROBATION, RALLY}) => ctx.baseline_readings = <<>>

\* C25: an update() call whose timestamp is not greater than that of the
\* previous update() call is refused: it changes neither the counters, nor
\* the state, nor the clip list.
C25_StaleTimestampRefused ==
    (Called /\ hist.prev_timestamp >= 0 /\ call.timestamp <= hist.prev_timestamp) =>
        /\ ctx = call.pre
        /\ clips = call.pre_clips
        /\ call.ret = NoClip

\* C21: calculate() called with an empty stored previous-point list (first
\* call, after reset(), after a frame without skeletons) returns 0.0 whatever
\* the current points, and after every calculate() call the stored list is
\* the list of points just passed in.
C21_EmptyPrevGivesZero ==
    probe.fn = "calculate" =>
        /\ probe.prev_skeletons = <<>> => probe.ret = Frac(0, 1)
        /\ energy_calc.prev_skeletons = probe.current_skeletons

\* points passed to an empty calculator: 0.0 returned, the points stored
C21_Witness ==
    /\ probe.fn = "calculate" /\ probe.prev_skeletons = <<>>
    /\ probe.current_skeletons # <<>> /\ probe.ret = Frac(0, 1)
    /\ energy_calc.prev_skeletons = probe.current_skeletons

\* a frame without skeletons after one with skeletons: the empty list is stored
C21_WitnessEmptyFrame ==
    /\ probe.fn = "calculate" /\ probe.prev_skeletons # <<>>
    /\ probe.current_skeletons = <<>> /\ energy_calc.prev_skeletons = <<>>

\* C22: one update_smooth call moves the smoothed value towards the raw
\* energy fed: the distance to it is not larger than before, the value does
\* not end on the other side of it, and with alpha = 1 the value is the raw
\* energy.
C22_SmoothingMonotone ==
    probe.fn = "update_smooth" =>
        /\ ~FLess(FDist(probe.smooth_prev, probe.raw_energy), FDist(probe.ret, probe.raw_energy))
        /\ ~(FLess(probe.smooth_prev, probe.raw_energy) /\ FLess(probe.raw_energy, probe.ret))
        /\ ~(FLess(probe.raw_energy, probe.smooth_prev) /\ FLess(probe.ret, probe.raw_energy))
        /\ (config.energy_smoothing_factor = Frac(1, 1) => probe.ret = probe.raw_energy)

\* the last calculate() call found a stored previous-point list
Matching == probe.fn = "calculate" /\ probe.prev_skeletons # <<>>
\* the distance between current point k and previous point i of that call
PairDist(k, i) == Dist(probe.current_skeletons[k], probe.prev_skeletons[i])
\* the previous points taken by current points before k
UsedBefore(k) == {probe.pairs[j][2] : j \in {x \in 1..Len(probe.pairs) : probe.pairs[x][1] < k}}
\* the previous points current point k may take
Free(k) ==
    {i \in 1..Len(probe.prev_skeletons) :
        i \notin UsedBefore(k) /\ PairDist(k, i) < config.max_skeleton_match_distance}
\* the previous points current point k was matched to
MatchedTo(k) == {probe.pairs[j][2] : j \in {x \in 1..Len(probe.pairs) : probe.pairs[x][1] = k}}
RECURSIVE MatchedTotal(_)
MatchedTotal(j) ==
    IF j = 0 THEN 0 ELSE MatchedTotal(j - 1) + PairDist(probe.pairs[j][1], probe.pairs[j][2])
\* min(|previous|, |current|)
FewerPoints ==
    IF Len(probe.prev_skeletons) < Len(probe.current_skeletons)
    THEN Len(probe.prev_skeletons) ELSE Len(probe.current_skeletons)
\* greedy nearest-neighbour matching in the order of the current points, every
\* previous point used at most once, the result the scaled sum of the matches
GreedyMatching ==
    /\ \A j \in 1..Len(probe.pairs) :
          /\ probe.pairs[j][1] \in 1..Len(probe.current_skeletons)
          /\ probe.pairs[j][2] \in 1..Len(probe.prev_skeletons)
    /\ \A j1, j2 \in 1..Len(probe.pairs) :
          j1 < j2 => /\ probe.pairs[j1][1] < probe.pairs[j2][1]
                     /\ probe.pairs[j1][2] # probe.pairs[j2][2]
    /\ \A k \in 1..Len(probe.current_skeletons) :
          IF Free(k) = {} THEN MatchedTo(k) = {}
          ELSE \E i \in Free(k) :
                  /\ MatchedTo(k) = {i}
                  /\ \A i2 \in Free(k) : PairDist(k, i) <= PairDist(k, i2)
    /\ probe.ret = Frac(MatchedTotal(Len(probe.pairs)) * energy_calc.scale_den, 1)
    /\ Len(probe.pairs) <= FewerPoints

\* C30 as stated: greedy matching as above, and the result is below
\* min(|previous|, |current|) times max_skeleton_match_distance / scale_factor.
C30_Original ==
    Matching =>
        /\ GreedyMatching
        /\ FLess(probe.ret,
                 Frac(FewerPoints * config.max_skeleton_match_distance * energy_calc.scale_den, 1))

\* C30: greedy matching as above; the result is 0 when nothing is matched (an
\* empty current list included), and otherwise it is below the number of
\* matches times max_skeleton_match_distance / scale_factor, the number of
\* matches being at most min(|previous|, |current|).
C30_GreedyMatching ==
    Matching =>
        /\ GreedyMatching
        /\ Len(probe.pairs) = 0 => probe.ret = Frac(0, 1)
        /\ Len(probe.pairs) > 0 =>
              FLess(probe.ret,
                    Frac(Len(probe.pairs) * config.max_skeleton_match_distance * energy_calc.scale_den, 1))
        /\ ~FLess(Frac(FewerPoints * config.max_skeleton_match_distance * energy_calc.scale_den, 1),
                  probe.ret)

\* two current points matched, the first one to the second previous point
C30_Witness ==
    /\ Matching /\ Len(probe.pairs) = 2
    /\ probe.pairs[1] = <<1, 2>> /\ probe.pairs[2] = <<2, 1>>
    /\ FLess(Frac(0, 1), probe.ret)

\* a current point left unmatched: its nearest unused previous point is
\* exactly max_skeleton_match_distance away
C30_WitnessTooFar ==
    /\ Matching
    /\ \E k \in 1..Len(probe.current_skeletons) :
          /\ MatchedTo(k) = {}
          /\ \E i \in 1..Len(probe.prev_skeletons) :
                i \notin UsedBefore(k) /\ PairDist(k, i) = config.max_skeleton_match_distance

\* a current point left unmatched because the only close previous point was taken
C30_WitnessTaken ==
    /\ Matching /\ Len(probe.pairs) = 1 /\ Len(probe.current_skeletons) = 2
    /\ MatchedTo(2) = {}
    /\ PairDist(2, probe.pairs[1][2]) < config.max_skeleton_match_distance

\* the last call was check_occupancy
Checked == probe.fn = "check_occupancy"
\* zone i holds at least one of the ankle points of the call, the boundary included
HoldsAnkle(i) ==
    \E k \in 1..Len(probe.ankles) :
        pointPolygonTest(ZonesToCheck(probe.mgr)[i], probe.ankles[k]) \in {0, 1}

\* C23: check_occupancy returns one boolean per zone, in zone order, a zone
\* being occupied exactly when at least one ankle point is inside or on the
\* boundary of its polygon; active_count is the number of occupied zones,
\* between 0 and the number of zones, and 0 for an empty ankle list; the call
\* leaves the zone manager as it was.
C23_Occupancy ==
    Checked =>
        /\ Len(probe.ret.occupancy) = Len(ZonesToCheck(probe.mgr))
        /\ \A i \in 1..Len(probe.ret.occupancy) : probe.ret.occupancy[i] <=> HoldsAnkle(i)
        /\ probe.ret.active_count =
              Cardinality({i \in 1..Len(ZonesToCheck(probe.mgr)) : HoldsAnkle(i)})
        /\ 0 <= probe.ret.active_count
        /\ probe.ret.active_count <= Len(ZonesToCheck(probe.mgr))
        /\ probe.ankles = <<>> => probe.ret.active_count = 0
        /\ zone_mgr = probe.mgr

\* two zones, the first occupied by the first of two ankles only, the second empty
C23_Witness ==
    /\ Checked /\ Len(probe.ankles) = 2
    /\ probe.ret.occupancy = <<TRUE, FALSE>>
    /\ probe.ret.active_count = 1
    /\ pointPolygonTest(ZonesToCheck(probe.mgr)[1], probe.ankles[2]) = -1

\* a zone occupied by an ankle on its boundary alone, after scaling
C23_WitnessBoundary ==
    /\ Checked /\ probe.mgr.scaled_zones # <<>>
    /\ \E i \in 1..Len(probe.ret.occupancy) :
          /\ probe.ret.occupancy[i]
          /\ \A k \in 1..Len(probe.ankles) :
                pointPolygonTest(probe.mgr.scaled_zones[i], probe.ankles[k]) <= 0

\* no ankle at all with zones loaded
C23_WitnessNoAnkles ==
    /\ Checked /\ probe.ankles = <<>> /\ Len(probe.mgr.zones) = MaxZones
    /\ probe.ret.occupancy = [i \in 1..MaxZones |-> FALSE]

\* the smoothing factor of configuration c is outside (0, 1]
BadSmoothing(c) ==
    ~FLess(Frac(0, 1), c.energy_smoothing_factor) \/ FLess(Frac(1, 1), c.energy_smoothing_factor)
\* the threshold bounds of configuration c are inconsistent
BadThresholds(c) == c.min_dynamic_threshold > c.max_dynamic_threshold

\* C24: a Config with energy_smoothing_factor outside (0, 1] or with
\* min_dynamic_threshold > max_dynamic_threshold is refused when it is
\* constructed: the program ends there, nothing of the video is processed and
\* update() is never called under such a configuration.
C24_ConfigRejectedEagerly ==
    /\ loop.pc # "main" /\ (BadSmoothing(Config(loop.args)) \/ BadThresholds(Config(loop.args)))
          => loop.pc = "raised"
    /\ loop.pc = "raised" =>
          /\ call.op = "init" /\ ctx = StateMachineContext /\ clips = <<>>
          /\ frame_idx = 0 /\ loop.fed = <<>>
          /\ energy_calc = EnergyCalculator(1) /\ zone_mgr = ZoneManager
    /\ call.op = "update" =>
          /\ config = Config(loop.args)
          /\ ~BadSmoothing(config) /\ ~BadThresholds(config)

\* refused for the smoothing factor alone
C24_Witness ==
    /\ loop.pc = "raised"
    /\ loop.args.energy_smoothing_factor = Frac(3, 2)
    /\ loop.args.thresholds[1] <= loop.args.thresholds[2]
    /\ loop.args.inference_batch_size >= 1

\* refused for the threshold bounds alone
C24_WitnessThresholds ==
    /\ loop.pc = "raised"
    /\ ~BadSmoothing(Config(loop.args))
    /\ loop.args.thresholds[1] > loop.args.thresholds[2]
    /\ loop.args.inference_batch_size >= 1

\* a valid configuration under which the video was processed to its end
C24_WitnessAccepted ==
    loop.pc = "done" /\ call.op = "update" /\ frame_idx = MaxVideo

\* the sampled frames among the first n: the multiples of logic_step, ascending
Sampled(n) == [k \in 1..(n \div loop.logic_step) |-> k * loop.logic_step]
\* the frame indices fed to the energy calculation and to update(), in order
FedFrames == [k \in 1..Len(loop.fed) |-> loop.fed[k].fi]
\* the frames batched and not yet fed
Pending ==
    IF loop.pc = "for" THEN SubSeq(loop.batch, loop.i, Len(loop.batch)) ELSE loop.batch

\* C26: the ticks fed by process_video are the sampled frames (frame index a
\* multiple of logic_step), each exactly once, in strictly increasing frame
\* index and timestamp order, one per update() call; at the end of the video
\* every sampled frame has been fed, those of a final partial batch included,
\* unless the user quit the preview, and then the frames fed are the first
\* sampled ones.
C26_TicksInOrder ==
    loop.pc \in {"read", "for", "done"} =>
        /\ \A k \in 1..Len(loop.fed) :
              /\ loop.fed[k].fi % loop.logic_step = 0
              /\ loop.fed[k].ts * fps = loop.fed[k].fi * TimeDen
        /\ \A k \in 1..(Len(loop.fed) - 1) :
              /\ loop.fed[k].fi < loop.fed[k + 1].fi
              /\ loop.fed[k].ts < loop.fed[k + 1].ts
        /\ ~loop.user_quit => FedFrames \o Pending = Sampled(frame_idx)
        /\ loop.pc = "done" /\ ~loop.user_quit => FedFrames = Sampled(frame_idx)
        /\ loop.user_quit =>
              /\ loop.pc = "done" /\ config.show_visuals
              /\ FedFrames = SubSeq(Sampled(frame_idx), 1, Len(loop.fed))
        /\ loop.fed # <<>> =>
              /\ call.op = "update"
              /\ call.timestamp = loop.fed[Len(loop.fed)].ts
              /\ call.logic_step = loop.logic_step
        /\ Len(loop.batch) <= loop.batch_size

\* the video ended on a partial batch: frames 2, 4 in a full batch of two, 6 alone
C26_Witness ==
    /\ loop.pc = "done" /\ ~loop.user_quit
    /\ loop.batch_size = 2 /\ loop.logic_step = 2
    /\ FedFrames = <<2, 4, 6>>

\* the user quit the preview in the middle of a batch
C26_WitnessQuit ==
    /\ loop.user_quit /\ loop.batch_size = 3
    /\ Len(loop.fed) = 4 /\ Len(Sampled(frame_idx)) = 6

\* the last call was calculate_dynamic_threshold
Calibrated == probe.fn = "calculate_dynamic_threshold"
\* noise floor plus sensitivity of that call as a quotient RawNum / RawDen: the
\* mean of the readings, or 10.0 for no reading, plus base_sensitivity
RawNum ==
    IF probe.baseline_readings = <<>> THEN 10 * EDen + probe.base_sensitivity
    ELSE Sum(probe.baseline_readings) + probe.base_sensitivity * Len(probe.baseline_readings)
RawDen == IF probe.baseline_readings = <<>> THEN 1 ELSE Len(probe.baseline_readings)

\* C31: calculate_dynamic_threshold returns noise floor plus base_sensitivity
\* clamped to [min_threshold, max_threshold] (the ceiling applied first, then
\* the floor), the noise floor being the arithmetic mean of the readings, or
\* 10.0 when there is none; every call returns a value.
C31_ThresholdFormula ==
    Calibrated =>
        /\ probe.ret.d > 0
        /\ IF RawNum > probe.max_threshold * RawDen /\ probe.max_threshold >= probe.min_threshold
           THEN probe.ret = Frac(probe.max_threshold, 1)
           ELSE IF RawNum > probe.max_threshold * RawDen \/ RawNum < probe.min_threshold * RawDen
           THEN probe.ret = Frac(probe.min_threshold, 1)
           ELSE probe.ret.n * RawDen = RawNum * probe.ret.d

\* two readings with a mean that is no whole number; the result is mean plus
\* sensitivity, strictly inside the rails
C31_Witness ==
    /\ Calibrated /\ Len(probe.baseline_readings) = 2
    /\ Sum(probe.baseline_readings) % 2 = 1
    /\ FLess(Frac(probe.min_threshold, 1), probe.ret)
    /\ FLess(probe.ret, Frac(probe.max_threshold, 1))
    /\ probe.ret = Frac(Sum(probe.baseline_readings) + 2 * probe.base_sensitivity, 2)

\* no reading: the result is 10.0 plus the sensitivity, strictly inside the rails
C31_WitnessEmpty ==
    /\ Calibrated /\ probe.baseline_readings = <<>>
    /\ probe.ret = Frac(10 * EDen + probe.base_sensitivity, 1)
    /\ FLess(Frac(probe.min_threshold, 1), probe.ret)
    /\ FLess(probe.ret, Frac(probe.max_threshold, 1))

\* C32: scale_zones(original_width, target_width) records the ratio
\* target_width / original_width and replaces the scaled zones by a copy of
\* every zone with each vertex coordinate multiplied by the ratio and rounded
\* to the nearest integer; the original zones are unchanged and the numbers
\* and order of zones and vertices are kept.
C32_ScaledToNearest ==
    probe.fn = "scale_zones" =>
        /\ zone_mgr.scale_factor = Frac(probe.target_width, probe.original_width)
        /\ zone_mgr.zones = probe.mgr.zones
        /\ Len(zone_mgr.scaled_zones) = Len(zone_mgr.zones)
        /\ \A i \in 1..Len(zone_mgr.zones) :
              /\ Len(zone_mgr.scaled_zones[i]) = Len(zone_mgr.zones[i])
              /\ \A v \in 1..Len(zone_mgr.zones[i]) : \A xy \in 1..2 :
                    zone_mgr.scaled_zones[i][v][xy] =
                        RoundHalfEven(zone_mgr.zones[i][v][xy] * probe.target_width,
                                      probe.original_width)

\* the last call continued a run of RALLY ticks with a skeleton, unoccupied
\* zones and energy below the threshold, all with the same logic_step
QuietRun == Called /\ hist.low_ticks >= 1 /\ hist.low_step >= 1
\* ceil(frames_end_needed / logic_step) for the logic_step of that run
QuietTicks == (frames_end_needed + hist.low_step - 1) \div hist.low_step
\* the call closed the RALLY clip by low energy
RallyClosed ==
    /\ call.pre.state = RALLY /\ ctx.state = SEARCHING /\ call.cut = "rally"
    /\ call.ret # NoClip /\ clips = Append(call.pre_clips, call.ret)
\* no RALLY clip is closed by low energy before the counter has reached frames_end_needed
ClosedOnlyWhenCounted ==
    Called /\ call.cut = "rally" =>
        /\ ctx.low_energy_frames >= frames_end_needed
        /\ ctx.low_energy_frames = IF call.num_skeletons < 1 THEN 0 ELSE LowCount

\* C33 as stated: a run of such ticks closes the clip and returns the machine
\* to SEARCHING within ceil(frames_end_needed / logic_step) ticks, and no
\* RALLY clip is closed by low energy before the counter reached frames_end_needed.
C33_Original ==
    /\ QuietRun =>
          /\ hist.low_ticks <= QuietTicks
          /\ hist.low_ticks = QuietTicks => RallyClosed
    /\ ClosedOnlyWhenCounted

\* C33: the same with at least one tick: the clip is closed within
\* max(1, ceil(frames_end_needed / logic_step)) ticks of the run.
C33_BoundedResponse ==
    /\ QuietRun =>
          /\ hist.low_ticks <= IMax(1, QuietTicks)
          /\ hist.low_ticks = IMax(1, QuietTicks) => RallyClosed
    /\ ClosedOnlyWhenCounted

\* the second quiet tick of a run with logic_step 1 closes the clip: 2 frames needed
C33_Witness ==
    /\ QuietRun /\ hist.low_ticks = 2 /\ hist.low_step = 1 /\ frames_end_needed = 2
    /\ RallyClosed

\* one quiet tick with logic_step 2 closes it
C33_WitnessOneTick ==
    /\ QuietRun /\ hist.low_ticks = 1 /\ hist.low_step = 2 /\ frames_end_needed = 2
    /\ call.pre.low_energy_frames = 0 /\ RallyClosed

\* a quiet tick that leaves the machine in RALLY
C33_WitnessWaiting ==
    QuietRun /\ hist.low_ticks = 1 /\ ctx.state = RALLY /\ ctx.low_energy_frames = 1

\* the transitions that close a clip
ClosingEdges == {<<PROBATION, SEARCHING>>, <<RALLY, SEARCHING>>, <<RALLY, LOCKED>>}
\* the state the global override block of the last call left for the branch chain
StateAfterOverride ==
    GlobalOverride([ctx |-> PeakTracking(call.pre, call.smooth_energy), clip |-> NoClip, cut |-> "none"],
                   call.timestamp, call.active_zones, call.logic_step).ctx.state

\* C34: one update() call makes at most one state transition, the override
\* block and the branch chain together, and closes at most one clip; it
\* returns a clip exactly when it made PROBATION->SEARCHING, RALLY->SEARCHING
\* or RALLY->LOCKED, and that clip is the one appended; the clip list is as
\* long as the number of closing transitions since construction or reset.
C34_OneClipPerCall ==
    /\ Called =>
          /\ ~(call.pre.state # StateAfterOverride /\ StateAfterOverride # ctx.state)
          /\ ctx.state # call.pre.state => <<call.pre.state, ctx.state>> \in Edges
          /\ call.ret # NoClip <=> <<call.pre.state, ctx.state>> \in ClosingEdges
          /\ call.ret # NoClip <=> call.cut # "none"
          /\ clips = IF call.ret # NoClip THEN Append(call.pre_clips, call.ret) ELSE call.pre_clips
    /\ Len(clips) = hist.closures

\* the second clip of a run, closed by a force cut in a call that went on
\* through the LOCKED block
C34_Witness ==
    /\ Called /\ call.cut = "force" /\ ctx.state = LOCKED
    /\ Len(clips) = 2 /\ hist.closures = 2
    /\ ctx.baseline_readings = <<call.smooth_energy>>

\* reset() called on a machine that had closed a clip
C34_WitnessAfterReset ==
    call.op = "reset" /\ Len(call.pre_clips) >= 1 /\ clips = <<>> /\ hist.closures = 0

\* the machine holds an open candidate
Candidate == ctx.state \in {PROBATION, RALLY}

\* C35: whenever the machine is in PROBATION or RALLY its dynamic threshold
\* is the one calibrated at the serve of the present candidate and lies within
\* [min_dynamic_threshold, max_dynamic_threshold]; the initial 40.0 of a
\* fresh context is never the threshold of a PROBATION or RALLY tick.
C35_CalibratedThreshold ==
    /\ Candidate =>
          /\ hist.threshold # Uncalibrated
          /\ ctx.dynamic_threshold = hist.threshold
          /\ ~FLess(ctx.dynamic_threshold, Frac(config.min_dynamic_threshold, 1))
          /\ ~FLess(Frac(config.max_dynamic_threshold, 1), ctx.dynamic_threshold)
    /\ (Called /\ call.pre.state \in {PROBATION, RALLY}) =>
          /\ hist.serves >= 1
          /\ call.pre.dynamic_threshold = hist.threshold
          /\ ctx.dynamic_threshold = call.pre.dynamic_threshold
    /\ hist.serves = 0 => /\ ~Candidate
                          /\ ctx.dynamic_threshold = StateMachineContext.dynamic_threshold

\* a RALLY tick compared against a threshold strictly inside the rails
C35_Witness ==
    /\ Called /\ call.pre.state = RALLY /\ ctx.state = RALLY
    /\ FLess(Frac(config.min_dynamic_threshold, 1), ctx.dynamic_threshold)
    /\ FLess(ctx.dynamic_threshold, Frac(config.max_dynamic_threshold, 1))

\* the first PROBATION state of a machine with the default rails: 60, not 40
C35_WitnessFirstServe ==
    /\ Called /\ call.pre.state = LOCKED /\ ctx.state = PROBATION /\ hist.serves = 1
    /\ call.pre.dynamic_threshold = Frac(40 * EDen, 1)
    /\ ctx.dynamic_threshold = Frac(60 * EDen, 1)

\* the last call made the LOCKED -> PROBATION transition
Served == Called /\ call.pre.state = LOCKED /\ ctx.state = PROBATION

\* C36: update() never calibrates on an empty list: at every LOCKED ->
\* PROBATION transition the list calibrated on ends with the reading of the
\* transition tick, also right after a force cut emptied it, so the threshold
\* never comes from the fallback noise floor.
C36_NeverEmptyBaseline ==
    /\ Served =>
          /\ ctx.baseline_readings = Append(call.pre.baseline_readings, call.smooth_energy)
          /\ ctx.baseline_readings # <<>>
          /\ ctx.dynamic_threshold =
                clamp(Frac(Sum(ctx.baseline_readings)
                             + config.base_sensitivity * Len(ctx.baseline_readings),
                           Len(ctx.baseline_readings)),
                      Frac(config.min_dynamic_threshold, 1),
                      Frac(config.max_dynamic_threshold, 1))
    /\ (Called /\ call.cut = "force") => ctx.baseline_readings = <<call.smooth_energy>>
    /\ ctx.state = LOCKED => ctx.baseline_readings # <<>>

\* the serve on the tick after a force cut: calibrated on the readings of
\* the force-cut tick and of the serve tick, above the floor of the rails
C36_Witness ==
    /\ Served /\ hist.forced
    /\ Len(call.pre.baseline_readings) = 1 /\ Len(ctx.baseline_readings) = 2
    /\ FLess(Frac(config.min_dynamic_threshold, 1), ctx.dynamic_threshold)

\* C37: with int(min_hold_duration * fps) >= 1, in every state the machine
\* reaches: in SEARCHING frames_held is below the hold requirement and is the
\* sum of logic_step over the ticks whose readings are in the baseline list,
\* so it is 0 exactly when the list is empty; in LOCKED frames_held is at
\* least the hold requirement; in PROBATION it is 0; no counter is negative.
C37_CounterInvariants ==
    frames_start_needed >= 1 =>
        /\ ctx.state = SEARCHING =>
              /\ ctx.frames_held < frames_start_needed
              /\ ctx.frames_held = hist.searching
              /\ ctx.baseline_readings = hist.readings
              /\ ctx.frames_held = 0 <=> ctx.baseline_readings = <<>>
        /\ ctx.state = LOCKED => ctx.frames_held >= frames_start_needed
        /\ ctx.state = PROBATION => ctx.frames_held = 0
        /\ ctx.frames_held >= 0 /\ ctx.low_energy_frames >= 0

\* an occupied SEARCHING tick short of the hold requirement: one reading, one frame held
C37_Witness ==
    /\ Called /\ call.pre.state = SEARCHING /\ ctx.state = SEARCHING
    /\ ctx.frames_held = 1 /\ Len(ctx.baseline_readings) = 1 /\ frames_start_needed = 2

\* LOCKED entered with more frames held than required
C37_WitnessLocked ==
    Called /\ ctx.state = LOCKED /\ ctx.frames_held > frames_start_needed

\* a zone drop in SEARCHING after a clip: counter and list back to nothing
C37_WitnessDrop ==
    /\ Called /\ call.pre.state = SEARCHING /\ call.pre.frames_held > 0 /\ ~Occupied
    /\ ctx.frames_held = 0 /\ ctx.baseline_readings = <<>> /\ ctx.low_energy_frames > 0

\* C38: the list calibrated on at a serve holds one reading per tick, in tick
\* order, of the ticks that found the machine in SEARCHING with the zones
\* occupied or in LOCKED (the tick of a force cut included) since the list
\* was last emptied by a zone drop in SEARCHING, a clip closure, a force cut
\* or reset(); readings of an earlier clip, of an abandoned hold or of
\* PROBATION and RALLY ticks are in no later calibration.
C38_FreshBaseline ==
    /\ ctx.state \in {SEARCHING, LOCKED} => ctx.baseline_readings = hist.readings
    /\ Served =>
          /\ ctx.baseline_readings = hist.readings
          /\ ctx.dynamic_threshold = hist.threshold

\* the second serve of a run, after a clip closed by low energy: calibrated
\* on the readings gathered since that closure
C38_Witness ==
    /\ Served /\ hist.serves = 2 /\ hist.closures = 1 /\ ~hist.forced
    /\ Len(clips) = 1 /\ Len(ctx.baseline_readings) = 2

\* a late first serve: the list holds the two readings of the final hold only
C38_WitnessAbandoned ==
    /\ Served /\ hist.serves = 1 /\ Len(ctx.baseline_readings) = 2
    /\ call.timestamp * fps >= 4 * TimeDen

\* the call found the machine in PROBATION with an energy equal to the threshold
AtThreshold ==
    /\ Called /\ call.pre.state = PROBATION
    /\ ~Below(call.smooth_energy, call.pre.dynamic_threshold)
    /\ ~Above(call.smooth_energy, call.pre.dynamic_threshold)
\* the call left the candidate open and in PROBATION
StaysInProbation ==
    /\ ctx.state = PROBATION /\ call.ret = NoClip /\ clips = call.pre_clips
    /\ ctx.serve_time = call.pre.serve_time

\* C39 as stated: a PROBATION tick whose energy equals the threshold zeroes
\* the low-energy counter, does not promote and does not close the clip.
C39_Original ==
    AtThreshold => ctx.low_energy_frames = 0 /\ StaysInProbation

\* C39: a PROBATION tick whose energy equals the threshold zeroes the
\* low-energy counter and never promotes to RALLY; it leaves the machine in
\* PROBATION unless frames_end_needed is 0 and min_point_duration has
\* elapsed, in which case the zero counter already meets the end condition
\* and the tick closes the clip.
C39_AtThreshold ==
    AtThreshold =>
        /\ ctx.low_energy_frames = 0
        /\ ctx.state # RALLY
        /\ IF frames_end_needed = 0 /\ Elapsed >= config.min_point_duration
           THEN /\ ctx.state = SEARCHING /\ call.cut = "probation"
                /\ call.ret # NoClip /\ clips = Append(call.pre_clips, call.ret)
           ELSE StaysInProbation

\* an equal-energy tick past min_point_duration that found a non-zero
\* counter: the counter is zeroed and the candidate stays in PROBATION
C39_Witness ==
    /\ AtThreshold /\ Elapsed >= config.min_point_duration
    /\ frames_end_needed >= 1 /\ call.pre.low_energy_frames >= 1
    /\ ctx.low_energy_frames = 0 /\ ctx.state = PROBATION

\* two equal-energy ticks in a row past min_point_duration
C39_WitnessStays ==
    /\ AtThreshold /\ ctx.state = PROBATION /\ call.pre.low_energy_frames = 0
    /\ Elapsed >= config.min_point_duration + (TimeDen \div fps)

\* frames_end_needed is 0: the equal-energy tick closes the clip
C39_WitnessCloses ==
    /\ AtThreshold /\ frames_end_needed = 0 /\ ctx.state = SEARCHING
    /\ call.ret # NoClip

\* the candidate the machine holds is still open
OpenCandidate == ctx.state \in {PROBATION, RALLY}
\* the last update() call closed a candidate
Closing == Called /\ call.ret # NoClip

\* C40: a candidate is recorded only by the update() call that closes it:
\* each call appends its returned clip and nothing else, so the list holds
\* one clip per closure; when process_video returns, its "clips" are the
\* converted clips of that list, one per closed candidate, and a candidate
\* left open in PROBATION or RALLY at the end of the video or at a user quit
\* is not among them.
C40_OpenCandidateDropped ==
    /\ Called => clips = IF call.ret # NoClip THEN Append(call.pre_clips, call.ret)
                         ELSE call.pre_clips
    /\ loop.pc \in {"read", "for", "done", "returned"} =>
          /\ Len(clips) = hist.closures
          /\ hist.serves = hist.closures + (IF OpenCandidate THEN 1 ELSE 0)
    /\ loop.pc = "returned" =>
          /\ Len(loop.result) = hist.closures
          /\ \A k \in 1..Len(clips) : loop.result[k] = to_dict(clips[k])

\* the video ended with a candidate open and an earlier clip in the list
C40_Witness ==
    /\ loop.pc = "returned" /\ ~loop.user_quit /\ OpenCandidate
    /\ hist.serves = 2 /\ Len(loop.result) = 1

\* the user quit with the first candidate open: no clip in the result
C40_WitnessQuit ==
    /\ loop.pc = "returned" /\ loop.user_quit /\ OpenCandidate
    /\ hist.serves = 1 /\ loop.result = <<>>

\* the run ended in SEARCHING: every candidate is in the result
C40_WitnessAllClosed ==
    /\ loop.pc = "returned" /\ ctx.state = SEARCHING
    /\ hist.serves = 1 /\ Len(loop.result) = 1

=============================================================================
